---- MODULE Spec2Model ----
(***************************************************************************)
(* Model of StackVista/Integrations-Finder, src/integrations_finder.py.    *)
(*                                                                         *)
(* A string is a sequence of symbols.  A symbol is a one-character string, *)
(* or a fixed phrase of a message template kept as one symbol.  Formatting *)
(* is concatenation; regular-expression search scans positions from the    *)
(* left as Python's re.search does.                                        *)
(***************************************************************************)
EXTENDS Integers, Sequences, FiniteSets, TLC

(***************************************************************************)
(* Bounds of the model.                                                    *)
(***************************************************************************)
\* number of segments an input text of the extraction harness is built from
MaxSegs == 4
\* number of entries in a tag list returned by the hosting API
MaxTags == 2
\* number of IntegrationsFinder objects
NumFinders == 2
\* number of segments an input text of a run of find_integrations is built
\* from
MaxRunSegs == 3

(***************************************************************************)
(* Character classes of the regular expressions in extract_sha.            *)
(***************************************************************************)
\* faulty variant of the class: every letter and digit, as in [a-zA-Z0-9]
AlnumChars ==
    {"0", "1", "2", "3", "4", "5", "6", "7", "8", "9",
     "a", "b", "c", "d", "e", "f", "g", "h", "i", "j", "k", "l", "m",
     "n", "o", "p", "q", "r", "s", "t", "u", "v", "w", "x", "y", "z",
     "A", "B", "C", "D", "E", "F"}

\* [a-fA-F0-9]
HexChars ==
    {"0", "1", "2", "3", "4", "5", "6", "7", "8", "9",
     "a", "b", "c", "d", "e", "f", "A", "B", "C", "D", "E", "F"}

\* [0-9]
DigitChars ==
    {"0", "1", "2", "3", "4", "5", "6", "7", "8", "9"}

\* {8}: the length of a short SHA
ShaLen == 8

\* the literal part of quay_pattern, up to and including the colon
QuayLiteral ==
    <<"q", "u", "a", "y", ".", "i", "o", "/", "s", "t", "a", "c", "k", "s", "t", "a", "t", "e", "/", "s", "t", "a", "c", "k", "s", "t", "a", "t", "e", "-", "k", "8", "s", "-", "a", "g", "e", "n", "t", ":">>

\* Python's None, as a string value
None == <<"<None>">>

\* no value yet
Unset == <<"<unset>">>

(***************************************************************************)
(* Regular-expression matching, position by position.                      *)
(***************************************************************************)
\* [a-fA-F0-9]{8} matches at position i of s
ShaAt(s, i) ==
    /\ i >= 1
    /\ i + ShaLen - 1 <= Len(s)
    /\ \A k \in i..(i + ShaLen - 1) : s[k] \in HexChars

\* faulty variant: a digit run is consumed one digit only ([0-9] for [0-9]+)
SkipOneDigit(s, i) ==
    IF i <= Len(s) /\ s[i] \in DigitChars THEN i + 1 ELSE i

\* [0-9]+ from position i: the position after the (greedy) digit run;
\* no shorter run can match, what follows in the pattern is never a digit
RECURSIVE SkipDigits(_, _)
SkipDigits(s, i) ==
    IF i <= Len(s) /\ s[i] \in DigitChars THEN SkipDigits(s, i + 1) ELSE i

\* the literal character c stands at position i of s
CharAt(s, i, c) ==
    i <= Len(s) /\ s[i] = c

\* container_pattern matched at position i: the start of group 1, or 0
ContainerGroupAt(s, i) ==
    LET a == SkipDigits(s, i)
        b == SkipDigits(s, a + 1)
        c == SkipDigits(s, b + 1)
    IN  IF /\ a > i /\ CharAt(s, a, ".")
           /\ b > a + 1 /\ CharAt(s, b, ".")
           /\ c > b + 1 /\ CharAt(s, c, "-")
           /\ ShaAt(s, c + 1)
        THEN c + 1
        ELSE 0

\* faulty variant: the colon of the registry pattern is not consumed
QuayGroupAtNoColon(s, i) ==
    LET n == Len(QuayLiteral) - 1
    IN  IF /\ i + n - 1 <= Len(s)
           /\ \A k \in 1..n : s[i + k - 1] = QuayLiteral[k]
           /\ ShaAt(s, i + n)
        THEN i + n
        ELSE 0

\* quay_pattern matched at position i: the start of group 1, or 0
QuayGroupAt(s, i) ==
    LET n == Len(QuayLiteral)
    IN  IF /\ i + n - 1 <= Len(s)
           /\ \A k \in 1..n : s[i + k - 1] = QuayLiteral[k]
           /\ ShaAt(s, i + n)
        THEN i + n
        ELSE 0

\* the leftmost of the positions, as re.search goes through the text
Leftmost(positions) ==
    CHOOSE i \in positions : \A j \in positions : i <= j

\* faulty variant: group 0, the whole match with its version, is returned
SearchContainerWholeMatch(s, i) ==
    LET at == {k \in i..Len(s) : ContainerGroupAt(s, k) # 0}
    IN  IF at = {} THEN None
        ELSE SubSeq(s, Leftmost(at),
                    ContainerGroupAt(s, Leftmost(at)) + ShaLen - 1)

\* re.search(container_pattern, s) from position i: group 1 of the leftmost
\* match, or None
SearchContainer(s, i) ==
    LET at == {k \in i..Len(s) : ContainerGroupAt(s, k) # 0}
    IN  IF at = {} THEN None
        ELSE SubSeq(s, ContainerGroupAt(s, Leftmost(at)),
                    ContainerGroupAt(s, Leftmost(at)) + ShaLen - 1)

\* re.search(quay_pattern, s) from position i: group 1 of the leftmost
\* match, or None
SearchQuay(s, i) ==
    LET at == {k \in i..Len(s) : QuayGroupAt(s, k) # 0}
    IN  IF at = {} THEN None
        ELSE SubSeq(s, QuayGroupAt(s, Leftmost(at)),
                    QuayGroupAt(s, Leftmost(at)) + ShaLen - 1)

\* faulty variant: \b[a-fA-F0-9]{8}\b, a run of exactly eight standing alone
SearchShaStandalone(s, i) ==
    LET at == {k \in i..Len(s) :
                  /\ ShaAt(s, k)
                  /\ (k = 1 \/ s[k - 1] \notin HexChars)
                  /\ (k + ShaLen > Len(s) \/ s[k + ShaLen] \notin HexChars)}
    IN  IF at = {} THEN None
        ELSE SubSeq(s, Leftmost(at), Leftmost(at) + ShaLen - 1)

\* re.search(sha_pattern, s) from position i: group 0 of the leftmost match,
\* or None
SearchSha(s, i) ==
    LET at == {k \in i..Len(s) : ShaAt(s, k)}
    IN  IF at = {} THEN None
        ELSE SubSeq(s, Leftmost(at), Leftmost(at) + ShaLen - 1)

\* str.lower() on a symbol
LowerChar(c) ==
    CASE c = "A" -> "a" [] c = "B" -> "b" [] c = "C" -> "c"
      [] c = "D" -> "d" [] c = "E" -> "e" [] c = "F" -> "f"
      [] OTHER -> c

\* faulty variant: the exact tier normalises the letter case
ExactTierLower(s) ==
    [k \in 1..Len(s) |-> LowerChar(s[k])]

\* what the exact tier returns: the input itself
ExactTier(s) ==
    s

\* faulty variant: the generic search is tried before the structural patterns
extract_sha_generic_first(self, s) ==
    [ret |-> IF Len(s) = ShaLen /\ ShaAt(s, 1) THEN ExactTier(s)
             ELSE IF SearchSha(s, 1) # None THEN SearchSha(s, 1)
             ELSE IF SearchContainer(s, 1) # None THEN SearchContainer(s, 1)
             ELSE SearchQuay(s, 1),
     self |-> self]

\* faulty variant: the finder remembers that it has extracted before
extract_sha_memo(self, s) ==
    [ret |-> IF Len(s) = ShaLen /\ ShaAt(s, 1) THEN ExactTier(s)
             ELSE IF SearchContainer(s, 1) # None THEN SearchContainer(s, 1)
             ELSE IF SearchQuay(s, 1) # None THEN SearchQuay(s, 1)
             ELSE SearchSha(s, 1),
     self |-> self \cup {"last_sha"}]

\* IntegrationsFinder.extract_sha(self, input_string): the value returned
\* and the finder's state afterwards; self is neither read nor written
extract_sha(self, s) ==
    [ret |-> IF Len(s) = ShaLen /\ ShaAt(s, 1) THEN ExactTier(s)
             ELSE IF SearchContainer(s, 1) # None THEN SearchContainer(s, 1)
             ELSE IF SearchQuay(s, 1) # None THEN SearchQuay(s, 1)
             ELSE SearchSha(s, 1),
     self |-> self]

(***************************************************************************)
(* Python values that come out of response.json(): every value carries its *)
(* type.  A dict is a set of <<key, value>> pairs, a str a sequence of     *)
(* symbols.  Python's None is JSON null.                                   *)
(***************************************************************************)
JStr(s) == [t |-> "str", s |-> s]
JNum(n) == [t |-> "num", n |-> n]
JDict(d) == [t |-> "dict", d |-> d]
JList(l) == [t |-> "list", l |-> l]
JNull == [t |-> "null"]
\* a body response.json() cannot parse
NotJson == [t |-> "notjson"]

\* bool(v)
Truthy(v) ==
    CASE v.t = "null" -> FALSE
      [] v.t = "num" -> v.n # 0
      [] v.t = "str" -> v.s # <<>>
      [] v.t = "list" -> v.l # <<>>
      [] v.t = "dict" -> v.d # {}

\* k in d
HasKey(v, k) ==
    \E p \in v.d : p[1] = k

\* d.get(k, default)
Get(v, k, default) ==
    IF HasKey(v, k) THEN (CHOOSE p \in v.d : p[1] = k)[2] ELSE default

(***************************************************************************)
(* Results of evaluating Python code: a value, or an exception on its way  *)
(* up to the nearest handler.                                              *)
(***************************************************************************)
Ok(v) == [exc |-> "none", val |-> v]
Exc(name) == [exc |-> name]

\* faulty variant: the handler names the transport errors only
ExceptRequestException(exc) ==
    exc \in {"ConnectionError", "JSONDecodeError"}

\* "except Exception": every exception raised in the try block is caught
ExceptException(exc) ==
    TRUE

(***************************************************************************)
(* HTTP: self.session.get(url) either raises a transport error or returns  *)
(* a response with a status code and a body.                               *)
(***************************************************************************)
StatusOk == 200
StatusNotFound == 404

RaiseResp == [kind |-> "raise"]
HttpResp(status, body) == [kind |-> "http", status |-> status, body |-> body]

\* response.json()
ResponseJson(resp) ==
    IF resp.body = NotJson THEN Exc("JSONDecodeError") ELSE Ok(resp.body)

HostApi == "api.github.com"
HostWeb == "github.com"
HostRaw == "raw.githubusercontent.com"

\* the session after a request to host: a response leaves a pooled
\* connection to the host behind, a transport error leaves none
Connect(self, resp, host) ==
    IF resp.kind = "http" THEN self \cup {host} ELSE self

(***************************************************************************)
(* IntegrationsFinder.is_branch_version                                    *)
(***************************************************************************)
\* "for tag in tags": the items the loop visits, or the TypeError of a
\* value that cannot be iterated; a dict yields its keys, a str its
\* characters
IterItems(v) ==
    CASE v.t = "list" -> Ok(v.l)
      [] v.t = "dict" -> Ok(IF v.d = {} THEN <<>>
                            ELSE <<JStr((CHOOSE p \in v.d : TRUE)[1])>>)
      [] v.t = "str" -> Ok([k \in 1..Len(v.s) |-> JStr(<<v.s[k]>>)])
      [] OTHER -> Exc("TypeError")

\* faulty variant: only the first tag of the list is compared
TagLoopFirstOnly(tags, version) ==
    IF tags = <<>> THEN Ok(TRUE)
    ELSE IF Head(tags).t # "dict" THEN Exc("AttributeError")
    ELSE Ok(Get(Head(tags), "name", JNull) # version)

\* the loop of lines 162-164 and the return True after it
RECURSIVE TagLoop(_, _)
TagLoop(tags, version) ==
    IF tags = <<>> THEN Ok(TRUE)
    ELSE IF Head(tags).t # "dict" THEN Exc("AttributeError")
    ELSE IF Get(Head(tags), "name", JNull) = version THEN Ok(FALSE)
    ELSE TagLoop(Tail(tags), version)

\* the try block of is_branch_version
IsBranchTry(version, resp) ==
    IF resp.kind = "raise" THEN Exc("ConnectionError")
    ELSE IF resp.status = StatusOk
    THEN LET j == ResponseJson(resp)
         IN  IF j.exc # "none" THEN j
             ELSE LET items == IterItems(j.val)
                  IN  IF items.exc # "none" THEN items
                      ELSE TagLoop(items.val, version)
    ELSE Ok(TRUE)

\* faulty variant: the finder keeps the first classification and hands it
\* out for every later version
is_branch_version_kept(self, version, resp) ==
    LET r == IsBranchTry(version, resp)
        after == Connect(self, resp, HostApi) \cup {"classified as branch"}
    IN  IF "classified as branch" \in self
        THEN [ret |-> TRUE, raised |-> "none", self |-> after]
        ELSE IF r.exc = "none"
        THEN [ret |-> r.val, raised |-> "none", self |-> after]
        ELSE [ret |-> TRUE, raised |-> "none", self |-> after]

\* is_branch_version(self, version) when the tag-list request is answered
\* by resp: the value returned, the exception raised to the caller, and
\* the finder's session afterwards
is_branch_version(self, version, resp) ==
    LET r == IsBranchTry(version, resp)
        after == Connect(self, resp, HostApi)
    IN  IF r.exc = "none"
        THEN [ret |-> r.val, raised |-> "none", self |-> after]
        ELSE IF ExceptException(r.exc)
        THEN [ret |-> TRUE, raised |-> "none", self |-> after]
        ELSE [ret |-> "raised", raised |-> r.exc, self |-> after]

(***************************************************************************)
(* Strings of the report: formatting is concatenation of symbols.          *)
(***************************************************************************)
\* "N/A"
NA == <<"N", "/", "A">>

\* str(v), as an f-string or str.format puts a value into a message
Str(v) ==
    CASE v.t = "str" -> v.s
      [] v.t = "null" -> <<"None">>
      [] v.t = "num" -> <<"1">>
      [] OTHER -> <<"<repr>">>

\* sub in text
Contains(text, sub) ==
    \E i \in 1..(Len(text) - Len(sub) + 1) :
        SubSeq(text, i, i + Len(sub) - 1) = sub

\* AGENT_REPO and INTEGRATIONS_REPO
AgentRepo == <<"https://github.com/StackVista/stackstate-agent">>
IntegrationsRepo == <<"https://github.com/StackVista/stackstate-agent-integrations">>

\* f"{self.AGENT_REPO}/commit/{sha}"
CommitUrl(a) ==
    AgentRepo \o <<"/commit/">> \o a

\* build_integrations_url
build_integrations_url(integrations_version) ==
    IntegrationsRepo \o <<"/tree/">> \o Str(integrations_version)

\* the message of line 238
ExtractFailedMessage(text) ==
    <<"Could not extract 8-character SHA from: ">> \o text

\* the message of line 245
CommitNotFoundMessage(a) ==
    <<"Could not find agent commit with SHA: ">> \o a

\* the message of line 254
DepsNotFoundMessage(a) ==
    <<"Could not find integrations version in stackstate-deps.json for SHA: ">>
        \o a

\* the warning block of lines 289-295
BranchWarning(is_branch, integrations_version) ==
    IF is_branch
    THEN <<"\n", "WARNING: This integrations version (">>
            \o Str(integrations_version)
            \o <<") appears to be a development branch, not a released tag.",
                 "\n",
                 "   This means you're working with an unofficial/unreleased development version of the integrations.">>
    ELSE <<>>

\* the f-string of lines 297-312
SuccessMessage(a, html_url, agent, integ, integrations_version, is_branch) ==
    <<"Success! Found integrations source code:">>
        \o BranchWarning(is_branch, integrations_version)
        \o <<"\n", "\n", "SUSE Observability Agent Commit:", "\n", "  SHA: ">>
        \o a
        \o <<"\n", "  URL: ">> \o html_url
        \o <<"\n", "  Date: ">> \o agent.date
        \o <<"\n", "  Committer: ">> \o agent.name
        \o <<"\n", "\n", "Integrations Commit:", "\n", "  Version: ">>
        \o Str(integrations_version)
        \o <<" ">>
        \o (IF is_branch THEN <<"(DEVELOPMENT BRANCH)">>
            ELSE <<"(RELEASED TAG)">>)
        \o <<"\n", "  SHA: ">> \o integ.sha
        \o <<"\n", "  URL: ">> \o build_integrations_url(integrations_version)
        \o <<"\n", "  Date: ">> \o integ.date
        \o <<"\n", "  Committer: ">> \o integ.name
        \o <<"\n", "\n",
             "Click the integrations URL above to view the source code.">>

(***************************************************************************)
(* What a call of find_integrations hands to its caller.                   *)
(***************************************************************************)
NoOutcome == [kind |-> "none"]
Returns(value) == [kind |-> "return", value |-> value]
Raises(exc) == [kind |-> "raise", exc |-> exc]

\* try: ... except Exception: print(...); then "return None"
OrNone(r) ==
    IF r.exc = "none" THEN r
    ELSE IF ExceptException(r.exc) THEN Ok(JNull)
    ELSE r

\* a step of a lookup: either its value (or exception), or the fallback
\* request comes next
Done(r) == [next |-> "return", r |-> r]
Fallback == [next |-> "fallback"]

(***************************************************************************)
(* IntegrationsFinder.get_agent_commit                                     *)
(***************************************************************************)
\* lines 91-95: the API request; a status other than 200 leads to line 98
AgentCommitPrimary(resp) ==
    IF resp.kind = "raise" THEN Done(OrNone(Exc("ConnectionError")))
    ELSE IF resp.status = StatusOk THEN Done(OrNone(ResponseJson(resp)))
    ELSE Fallback

\* faulty variant: the confirmed commit carries its id only
AgentCommitFallbackShaOnly(a, resp) ==
    IF resp.kind = "raise" THEN OrNone(Exc("ConnectionError"))
    ELSE IF resp.status = StatusOk
    THEN Ok(JDict({<<"sha", JStr(a)>>}))
    ELSE Ok(JNull)

\* lines 98-109: the commit page request
AgentCommitFallback(a, resp) ==
    IF resp.kind = "raise" THEN OrNone(Exc("ConnectionError"))
    ELSE IF resp.status = StatusOk
    THEN Ok(JDict({<<"sha", JStr(a)>>, <<"html_url", JStr(CommitUrl(a))>>}))
    ELSE Ok(JNull)

(***************************************************************************)
(* IntegrationsFinder.get_stackstate_deps                                  *)
(***************************************************************************)
DepsKey == "STACKSTATE_INTEGRATIONS_VERSION"

\* base64.b64encode of a text, and a text that is the JSON form of a value
B64(text) == [t |-> "b64", of |-> text]
JsonText(v) == [t |-> "jsontext", of |-> v]
PlainText == [t |-> "text"]

\* base64.b64decode(v).decode("utf-8"): characters outside the alphabet
\* are discarded, so that "%%%" decodes to a text that is no JSON
B64Decode(v) ==
    IF v.t = "b64" THEN Ok(v.of)
    ELSE IF v = JStr(<<"%%%">>) THEN Ok(PlainText)
    ELSE IF v.t = "str" THEN Exc("binascii.Error")
    ELSE Exc("TypeError")

\* json.loads(text)
JsonLoads(text) ==
    IF text.t = "jsontext" THEN Ok(text.of) ELSE Exc("JSONDecodeError")

\* deps_data.get("STACKSTATE_INTEGRATIONS_VERSION")
ReadDepsKey(deps_data) ==
    IF deps_data.t = "dict" THEN Ok(Get(deps_data, DepsKey, JNull))
    ELSE Exc("AttributeError")

\* lines 196-198
DecodeDeps(content) ==
    IF ~HasKey(content, "content") THEN Exc("KeyError")
    ELSE LET file_content == B64Decode(Get(content, "content", JNull))
         IN  IF file_content.exc # "none" THEN file_content
             ELSE LET deps_data == JsonLoads(file_content.val)
                  IN  IF deps_data.exc # "none" THEN deps_data
                      ELSE ReadDepsKey(deps_data.val)

\* lines 186-198: the contents API request
DepsPrimary(resp) ==
    IF resp.kind = "raise" THEN Done(OrNone(Exc("ConnectionError")))
    ELSE IF resp.status = StatusOk
    THEN LET content == ResponseJson(resp)
         IN  IF content.exc # "none" THEN Done(OrNone(content))
             ELSE IF content.val.t # "dict"
             THEN Done(OrNone(Exc("AttributeError")))
             ELSE IF Get(content.val, "type", JNull) = JStr(<<"file">>)
             THEN Done(OrNone(DecodeDeps(content.val)))
             ELSE Fallback
    ELSE Fallback

\* faulty variant: the raw manifest is parsed and read outside the try block
DepsFallbackUnguarded(resp) ==
    IF resp.kind = "raise" THEN OrNone(Exc("ConnectionError"))
    ELSE IF resp.status = StatusOk
    THEN LET deps_data == ResponseJson(resp)
         IN  IF deps_data.exc # "none" THEN deps_data
             ELSE ReadDepsKey(deps_data.val)
    ELSE Ok(JNull)

\* lines 201-211: the raw URL request
DepsFallback(resp) ==
    IF resp.kind = "raise" THEN OrNone(Exc("ConnectionError"))
    ELSE IF resp.status = StatusOk
    THEN LET deps_data == ResponseJson(resp)
         IN  IF deps_data.exc # "none" THEN OrNone(deps_data)
             ELSE OrNone(ReadDepsKey(deps_data.val))
    ELSE Ok(JNull)

(***************************************************************************)
(* IntegrationsFinder.get_integrations_commit                              *)
(***************************************************************************)
\* commits[0]
FirstOf(commits) ==
    CASE commits.t = "list" -> Ok(commits.l[1])
      [] commits.t = "str" -> Ok(JStr(<<commits.s[1]>>))
      [] commits.t = "dict" -> Exc("KeyError")
      [] OTHER -> Exc("TypeError")

\* lines 123-130: the commits list request
IntegCommitPrimary(resp) ==
    IF resp.kind = "raise" THEN Done(OrNone(Exc("ConnectionError")))
    ELSE IF resp.status = StatusOk
    THEN LET commits == ResponseJson(resp)
         IN  IF commits.exc # "none" THEN Done(OrNone(commits))
             ELSE IF Truthy(commits.val) THEN Done(OrNone(FirstOf(commits.val)))
             ELSE Fallback
    ELSE Fallback

\* lines 133-142: the commit request for the version itself
IntegCommitFallback(resp) ==
    IF resp.kind = "raise" THEN OrNone(Exc("ConnectionError"))
    ELSE IF resp.status = StatusOk THEN OrNone(ResponseJson(resp))
    ELSE Ok(JNull)

(***************************************************************************)
(* IntegrationsFinder.find_integrations, between its remote calls.         *)
(***************************************************************************)
\* v["date"] and v["name"] of lines 274-275 and 284-285
Subscript(v, k) ==
    IF v.t # "dict" THEN Exc("TypeError")
    ELSE IF ~HasKey(v, k) THEN Exc("KeyError")
    ELSE Ok(Get(v, k, JNull))

\* lines 271-275 and 281-285: date and committer of a commit object
AuthorOf(info) ==
    LET commit_data == Get(info, "commit", JNull)
    IN  IF ~Truthy(commit_data) THEN Ok([date |-> NA, name |-> NA])
        ELSE IF commit_data.t # "dict" THEN Exc("AttributeError")
        ELSE LET author == Get(commit_data, "author", JNull)
             IN  IF ~Truthy(author) THEN Ok([date |-> NA, name |-> NA])
                 ELSE LET date == Subscript(author, "date")
                          name == Subscript(author, "name")
                      IN  IF date.exc # "none" THEN date
                          ELSE IF name.exc # "none" THEN name
                          ELSE Ok([date |-> Str(date.val),
                                   name |-> Str(name.val)])

\* value[:8]
FirstEight(v) ==
    IF v.t = "str"
    THEN Ok(SubSeq(v.s, 1, IF Len(v.s) < ShaLen THEN Len(v.s) ELSE ShaLen))
    ELSE IF v.t = "list" THEN Ok(<<"<repr>">>)
    ELSE Exc("TypeError")

\* lines 277-286: date, committer and SHA of the integrations commit
IntegFieldsOf(info) ==
    IF ~Truthy(info) THEN Ok([date |-> NA, name |-> NA, sha |-> NA])
    ELSE IF info.t # "dict" THEN Exc("AttributeError")
    ELSE LET author == AuthorOf(info)
             short == FirstEight(Get(info, "sha", JStr(NA)))
         IN  IF author.exc # "none" THEN author
             ELSE IF short.exc # "none" THEN short
             ELSE Ok([date |-> author.val.date, name |-> author.val.name,
                      sha |-> short.val])

\* faulty variant: the run goes on to the manifest although no commit was found
AfterAgentCommitNoCheck(a, r) ==
    IF r.exc # "none" THEN [pc |-> "returned", outcome |-> Raises(r.exc)]
    ELSE IF r.val.t # "dict"
    THEN [pc |-> "returned", outcome |-> Raises("AttributeError")]
    ELSE [pc |-> "deps_api", outcome |-> NoOutcome]

\* lines 244-247: what follows get_agent_commit
AfterAgentCommit(a, r) ==
    IF r.exc # "none" THEN [pc |-> "returned", outcome |-> Raises(r.exc)]
    ELSE IF ~Truthy(r.val)
    THEN [pc |-> "returned",
          outcome |-> Returns(<<FALSE, CommitNotFoundMessage(a)>>)]
    ELSE IF r.val.t # "dict"
    THEN [pc |-> "returned", outcome |-> Raises("AttributeError")]
    ELSE [pc |-> "deps_api", outcome |-> NoOutcome]

\* faulty variant: the run goes on although the manifest gave no version
AfterDepsNoCheck(a, r) ==
    IF r.exc # "none" THEN [pc |-> "returned", outcome |-> Raises(r.exc)]
    ELSE [pc |-> "integ_list", outcome |-> NoOutcome]

\* lines 251-257: what follows get_stackstate_deps
AfterDeps(a, r) ==
    IF r.exc # "none" THEN [pc |-> "returned", outcome |-> Raises(r.exc)]
    ELSE IF ~Truthy(r.val)
    THEN [pc |-> "returned",
          outcome |-> Returns(<<FALSE, DepsNotFoundMessage(a)>>)]
    ELSE [pc |-> "integ_list", outcome |-> NoOutcome]

\* lines 260 and 263: what follows get_integrations_commit
AfterIntegCommit(r) ==
    IF r.exc # "none" THEN [pc |-> "returned", outcome |-> Raises(r.exc)]
    ELSE [pc |-> "tags", outcome |-> NoOutcome]

\* lines 265-314: the report, once is_branch_version has returned
Report(a, info, integ_info, integrations_version, branch) ==
    IF branch.raised # "none" THEN Raises(branch.raised)
    ELSE LET agent == AuthorOf(info)
             integ == IntegFieldsOf(integ_info)
         IN  IF agent.exc # "none" THEN Raises(agent.exc)
             ELSE IF integ.exc # "none" THEN Raises(integ.exc)
             ELSE Returns(<<TRUE,
                            SuccessMessage(a,
                                Str(Get(info, "html_url", JStr(NA))),
                                agent.val, integ.val, integrations_version,
                                branch.ret),
                            branch.ret>>)

(***************************************************************************)
(* Input texts: concatenations of segments that exercise each tier.        *)
(***************************************************************************)
SegHexA == <<"a", "1", "B", "2", "c", "3", "D", "4">>
SegHexB == <<"1", "2", "3", "4", "5", "6", "7", "8">>
SegVersion == <<"7", ".", "5", "1", ".", "1", "-">>
SegQuay == QuayLiteral
SegDash == <<"-">>
SegColon == <<":">>
SegDigit == <<"9">>
SegHexChar == <<"f">>
SegOther == <<"x">>

Segments ==
    {SegHexA, SegHexB, SegVersion, SegQuay, SegDash, SegColon, SegDigit,
     SegHexChar, SegOther}

\* "".join(segs)
RECURSIVE Join(_)
Join(segs) ==
    IF segs = <<>> THEN <<>> ELSE Head(segs) \o Join(Tail(segs))

\* every text of at most n segments
Texts(n) ==
    UNION {{Join(segs) : segs \in [1..k -> Segments]} : k \in 0..n}

(***************************************************************************)
(* State.                                                                  *)
(***************************************************************************)
VARIABLES
    input_string,   \* the text handed to the operation under way
    sha_result,     \* what extract_sha returned for it, Unset before the call
    session,        \* session[f]: the hosts finder f's HTTP session has a
                    \* pooled connection to
    version,        \* the version string handed to is_branch_version
    response,       \* the answer the tag-list request of that call gets
    branch_result,  \* what that call returned or raised, NoCall before
    seen,           \* the values extract_sha has returned for input_string
    call_log,       \* <<f, session[f]>> at each call of extract_sha
    touched,        \* some call of extract_sha changed its finder's state
    pc,             \* where the call of find_integrations stands
    sha,            \* its local sha
    commit_info,    \* its local commit_info
    integrations_version,       \* its local integrations_version
    integrations_commit_info,   \* its local integrations_commit_info
    trace,          \* the requests the call has issued, in order
    outcome,        \* what the call handed to its caller
    caller,         \* what became of the caller's unpacking of the outcome
    outstanding,    \* the requests the session has sent and not yet got
                    \* the answer to
    previous,       \* an earlier run of the finder, kept for comparison
    find_enabled,   \* find_button is enabled
    progress_visible,   \* progress_bar is visible
    warning_visible,    \* warning_label is visible
    open_enabled,   \* open_url_button is enabled
    current_url,    \* IntegrationsFinderGUI.current_url
    results_text,   \* the text of results_text
    worker,         \* IntegrationsFinderGUI.worker: its input and how far
                    \* the thread is
    workers,        \* the WorkerThreads started and not yet ended
    finished,       \* the emissions of WorkerThread.finished not yet
                    \* handled by their slot
    delivered,      \* the emissions handled since the search was started
    dialog,         \* the message box that is open, "none" without one
    browser,        \* the URL last opened in the browser
    printed,        \* what the find command has printed, in order
    offered         \* the find command asked whether to open the browser

\* the variables of a call of find_integrations
run ==
    <<pc, sha, commit_info, integrations_version, integrations_commit_info,
      trace, outcome, caller, outstanding>>

\* the variables of the window of the GUI
gui ==
    <<find_enabled, progress_visible, warning_visible, open_enabled,
      current_url, results_text, worker, workers, finished, delivered, dialog>>

\* the variables of the find command
cli == <<printed, offered>>

\* the variables outside the finder and its calls
front == <<previous, gui, cli, browser>>

vars ==
    <<input_string, sha_result, session, version, response, branch_result,
      seen, call_log, touched, run, front>>

\* the variables that observe the calls of extract_sha
obs == <<seen, call_log, touched>>

NoObs ==
    seen = {} /\ call_log = {} /\ touched = FALSE

\* no run is kept
NoPrevious == [kept |-> FALSE]

\* no WorkerThread was created
NoWorker == [state |-> "none"]

\* lines 412, 426, 435 and 447: the window as init_ui leaves it
NewWindow ==
    /\ find_enabled = TRUE
    /\ progress_visible = FALSE
    /\ warning_visible = FALSE
    /\ open_enabled = FALSE
    /\ current_url = None
    /\ results_text = <<>>
    /\ worker = NoWorker
    /\ workers = 0
    /\ finished = <<>>
    /\ delivered = 0
    /\ dialog = "none"

\* a find command that has printed nothing
NewCommand ==
    /\ printed = <<>>
    /\ offered = FALSE

NoFront ==
    /\ previous = NoPrevious
    /\ NewWindow
    /\ NewCommand
    /\ browser = None

\* no caller has unpacked an outcome
NoCaller == [who |-> "none"]

\* no call of find_integrations under way
NoRun ==
    /\ pc = "idle"
    /\ sha = Unset
    /\ commit_info = JNull
    /\ integrations_version = JNull
    /\ integrations_commit_info = JNull
    /\ trace = <<>>
    /\ outcome = NoOutcome
    /\ caller = NoCaller
    /\ outstanding = 0

Finders == 1..NumFinders

\* no call of is_branch_version made yet
NoCall == [called |-> FALSE]

\* requests.Session() with the User-Agent header set, no connection yet
NewSession == {}

(***************************************************************************)
(* Specification of the extraction harness: one call of extract_sha on an  *)
(* arbitrary input text.                                                   *)
(***************************************************************************)
InitExtract ==
    /\ input_string \in Texts(MaxSegs)
    /\ sha_result = Unset
    /\ session = [f \in Finders |-> NewSession]
    /\ version = <<>>
    /\ response = RaiseResp
    /\ branch_result = NoCall
    /\ NoObs
    /\ NoFront
    /\ NoRun

\* sha = finder.extract_sha(input_string)
CallExtractSha ==
    /\ sha_result = Unset
    /\ sha_result' = extract_sha(NewSession, input_string).ret
    /\ UNCHANGED <<input_string, session, version, response, branch_result, obs, front,
                   run>>

NextExtract ==
    CallExtractSha

SpecExtract ==
    InitExtract /\ [][NextExtract]_vars

(***************************************************************************)
(* Vocabulary of the claims about extract_sha, stated on the text itself.  *)
(***************************************************************************)
IsHexDigit(c) ==
    c \in {"0", "1", "2", "3", "4", "5", "6", "7", "8", "9"}
          \cup {"a", "b", "c", "d", "e", "f"} \cup {"A", "B", "C", "D", "E", "F"}

IsDecimal(c) ==
    c \in {"0", "1", "2", "3", "4", "5", "6", "7", "8", "9"}

\* the eight symbols from position i on are hex characters
EightHexAt(s, i) ==
    /\ i \in 1..(Len(s) - 7)
    /\ \A k \in 0..7 : IsHexDigit(s[i + k])

Eight(s, i) ==
    SubSeq(s, i, i + 7)

IsEightHex(s) ==
    Len(s) = 8 /\ EightHexAt(s, 1)

AllDecimal(s, from, to) ==
    \A k \in from..to : IsDecimal(s[k])

PositionsOf(s, c) ==
    {k \in 1..Len(s) : s[k] = c}

\* <digits>.<digits>.<digits>-<8 hex> occurrences, as pairs <<start, group>>:
\* two dots at d1 < d2 and a dash at h, decimals in between and before,
\* 8 hex characters after the dash
VersionedTags(s) ==
    LET dots == PositionsOf(s, ".")
        dashes == {h \in PositionsOf(s, "-") : EightHexAt(s, h + 1)}
        shapes == {t \in dots \X dots \X dashes :
                      /\ t[1] + 1 < t[2]
                      /\ t[2] + 1 < t[3]
                      /\ AllDecimal(s, t[1] + 1, t[2] - 1)
                      /\ AllDecimal(s, t[2] + 1, t[3] - 1)}
    IN  UNION {{<<i, t[3] + 1>> : i \in {j \in 1..(t[1] - 1) :
                                            AllDecimal(s, j, t[1] - 1)}} :
               t \in shapes}

\* the registry path and colon, followed by 8 hex characters, as pairs
\* <<start, group>>
QuayTags(s) ==
    LET n == Len(QuayLiteral)
    IN  {<<g - n, g>> : g \in {h \in (n + 1)..Len(s) :
                                  /\ EightHexAt(s, h)
                                  /\ SubSeq(s, h - n, h - 1) = QuayLiteral}}

EightHexPositions(s) ==
    {i \in 1..Len(s) : EightHexAt(s, i)}

\* the maximal run of hex characters around position i is exactly 8 long
StandaloneAt(s, i) ==
    /\ EightHexAt(s, i)
    /\ (i > 1 => ~IsHexDigit(s[i - 1]))
    /\ (i + 8 <= Len(s) => ~IsHexDigit(s[i + 8]))

StandalonePositions(s) ==
    {i \in 1..Len(s) : StandaloneAt(s, i)}

Min(S) ==
    CHOOSE x \in S : \A y \in S : x <= y

\* the group of the occurrence that starts leftmost
LeftmostGroup(occ) ==
    LET i == Min({p[1] : p \in occ})
    IN  Min({p[2] : p \in {q \in occ : q[1] = i}})

Called ==
    sha_result # Unset

Tier1 == IsEightHex(input_string)
Tier2 == VersionedTags(input_string) # {}
Tier3 == QuayTags(input_string) # {}
Tier4 == EightHexPositions(input_string) # {}

Capture2 == Eight(input_string, LeftmostGroup(VersionedTags(input_string)))
Capture3 == Eight(input_string, LeftmostGroup(QuayTags(input_string)))
Capture4 == Eight(input_string, Min(EightHexPositions(input_string)))

\* C1: the tiers are tried in the order exact, versioned tag, registry,
\* generic; the first tier that matches decides the result, also when a
\* lower tier would match a different 8-hex substring earlier in the text.
C1_TierOrder ==
    Called =>
        /\ Tier1 => sha_result = input_string
        /\ (~Tier1 /\ Tier2) => sha_result = Capture2
        /\ (~Tier1 /\ ~Tier2 /\ Tier3) => sha_result = Capture3
        /\ (~Tier1 /\ ~Tier2 /\ ~Tier3 /\ Tier4) => sha_result = Capture4
        /\ (~Tier1 /\ ~Tier2 /\ ~Tier3 /\ ~Tier4) => sha_result = None

\* the versioned tag tier beat the registry tier, and both beat an 8-hex
\* substring that stands earlier in the text
C1_Witness ==
    /\ Called /\ ~Tier1 /\ Tier2 /\ Tier3
    /\ sha_result = Capture2
    /\ Capture3 # Capture2
    /\ Capture4 # Capture2
    /\ Min(EightHexPositions(input_string))
         < LeftmostGroup(VersionedTags(input_string))

\* C2: an input of exactly 8 hex characters is returned unchanged, same
\* characters and same letter case.
C2_ExactUnchanged ==
    (Called /\ IsEightHex(input_string)) => sha_result = input_string

C2_Witness ==
    /\ Called /\ IsEightHex(input_string)
    /\ \E k \in 1..8 : input_string[k] \in {"A", "B", "C", "D", "E", "F"}
    /\ sha_result = input_string

\* C3: an input that is not itself 8 hex characters and contains
\* <digits>.<digits>.<digits>-<8 hex> yields the group of the leftmost such
\* occurrence, whatever precedes it.
C3_VersionedTag ==
    (Called /\ ~IsEightHex(input_string) /\ VersionedTags(input_string) # {})
        => sha_result = Capture2

\* a prefix holding other hex characters precedes the versioned tag
C3_Witness ==
    /\ Called /\ ~Tier1 /\ Tier2
    /\ Min({p[1] : p \in VersionedTags(input_string)}) > 1
    /\ Capture4 # Capture2
    /\ sha_result = Capture2

\* C4: when neither the exact nor the versioned tier matches and the text
\* holds the registry path, a colon and 8 hex characters, those 8
\* characters are returned.
C4_QuayTag ==
    (Called /\ ~Tier1 /\ ~Tier2 /\ Tier3) => sha_result = Capture3

C4_Witness ==
    /\ Called /\ ~Tier1 /\ ~Tier2 /\ Tier3
    /\ Capture4 # Capture3
    /\ sha_result = Capture3

\* C5 as stated: with no higher tier matching, the result is the first run
\* of exactly 8 hex characters standing alone; a longer run is no match.
C5_StandaloneOnly ==
    (Called /\ ~Tier1 /\ ~Tier2 /\ ~Tier3) =>
        sha_result =
            IF StandalonePositions(input_string) = {} THEN None
            ELSE Eight(input_string, Min(StandalonePositions(input_string)))

\* C5 amended: with no higher tier matching, the result is the 8 characters
\* at the leftmost position where 8 hex characters stand in a row, whether
\* or not further hex characters adjoin them; None when there is no such
\* position.
C5_LeftmostEightHex ==
    (Called /\ ~Tier1 /\ ~Tier2 /\ ~Tier3) =>
        sha_result = IF Tier4 THEN Capture4 ELSE None

\* the generic tier took the first 8 characters of a longer hex run
C5_Witness ==
    /\ Called /\ ~Tier1 /\ ~Tier2 /\ ~Tier3 /\ Tier4
    /\ ~StandaloneAt(input_string, Min(EightHexPositions(input_string)))
    /\ sha_result = Capture4

\* C6: a text without 8 consecutive hex characters yields None, and a
\* result other than None stands in the text.
C6_NoneWithoutHex ==
    Called =>
        /\ EightHexPositions(input_string) = {} => sha_result = None
        /\ sha_result # None =>
              \E i \in 1..Len(input_string) :
                  /\ i + Len(sha_result) - 1 <= Len(input_string)
                  /\ SubSeq(input_string, i, i + Len(sha_result) - 1) = sha_result

\* a text with hex characters and a version, but no 8 hex in a row
C6_Witness ==
    /\ Called
    /\ EightHexPositions(input_string) = {}
    /\ \E k \in 1..Len(input_string) : IsHexDigit(input_string[k])
    /\ Len(input_string) >= 8
    /\ sha_result = None

(***************************************************************************)
(* Specification of the branch-detection harness: one call of              *)
(* is_branch_version with an arbitrary answer to its tag-list request.     *)
(***************************************************************************)
Version751 == <<"7", ".", "5", "1", ".", "1">>
Version7513 == <<"7", ".", "5", "1", ".", "1", "-", "3">>
VersionMain == <<"m", "a", "i", "n">>

\* the version strings of test_branch_detection
Versions ==
    {Version751, Version7513, VersionMain}

\* an entry of the tag list: a tag object with a name, a tag object without
\* one, or a value that is no object
TagEntries ==
    {JDict({<<"name", JStr(v)>>}) : v \in Versions} \cup {JDict({}), JNum(1)}

\* the bodies a tag-list answer may carry: lists of entries, and bodies that
\* are no list at all
TagBodies ==
    UNION {{JList(l) : l \in [1..k -> TagEntries]} : k \in 0..MaxTags}
        \cup {NotJson, JNull, JNum(1), JStr(Version751),
              JDict({<<"message", JStr(VersionMain)>>})}

TagResponses ==
    {RaiseResp} \cup {HttpResp(st, b) : st \in {StatusOk, StatusNotFound},
                                        b \in TagBodies}

InitBranch ==
    /\ input_string = <<>>
    /\ sha_result = Unset
    /\ session = [f \in Finders |-> NewSession]
    /\ version \in Versions
    /\ response \in TagResponses
    /\ branch_result = NoCall
    /\ NoObs
    /\ NoFront
    /\ NoRun

\* is_branch = finder.is_branch_version(tag)
CallIsBranchVersion(f) ==
    /\ ~branch_result.called
    /\ LET call == is_branch_version(session[f], JStr(version), response)
       IN  /\ branch_result' = [called |-> TRUE, ret |-> call.ret,
                                raised |-> call.raised]
           /\ session' = [session EXCEPT ![f] = call.self]
    /\ UNCHANGED <<input_string, sha_result, version, response, obs, front, run>>

NextBranch ==
    \E f \in Finders : CallIsBranchVersion(f)

SpecBranch ==
    InitBranch /\ [][NextBranch]_vars

(***************************************************************************)
(* Vocabulary of the claims about is_branch_version, stated on the answer  *)
(* of the tag-list request.                                                *)
(***************************************************************************)
BranchCalled ==
    branch_result.called

Returned200 ==
    response.kind = "http" /\ response.status = 200

IsTagObject(e) ==
    e.t = "dict"

\* the body is a JSON list
BodyIsList ==
    response.kind = "http" /\ response.body.t = "list"

\* the entries of the returned list
ReturnedEntries ==
    IF BodyIsList THEN response.body.l ELSE <<>>

\* entry k is a tag whose name is the version asked about
NamesVersion(k) ==
    /\ IsTagObject(ReturnedEntries[k])
    /\ <<"name", JStr(version)>> \in ReturnedEntries[k].d

\* some returned tag is named exactly like the version
VersionAmongTags ==
    \E k \in 1..Len(ReturnedEntries) : NamesVersion(k)

\* every entry of the body up to entry k is a tag object
TagObjectsUpTo(k) ==
    \A j \in 1..k : IsTagObject(ReturnedEntries[j])

\* the body is a list of tag objects
BodyIsTagList ==
    BodyIsList /\ TagObjectsUpTo(Len(ReturnedEntries))

\* a tag named like the version stands in the list with only tag objects
\* before it
VersionFoundInOrder ==
    \E k \in 1..Len(ReturnedEntries) : NamesVersion(k) /\ TagObjectsUpTo(k)

ReturnedBranch ==
    branch_result.raised = "none" /\ branch_result.ret = TRUE

ReturnedTag ==
    branch_result.raised = "none" /\ branch_result.ret = FALSE

\* C8 as stated: after a 200 answer the result is false when some returned
\* tag's name equals the version and true when none does.
C8_TagIffNamed ==
    (BranchCalled /\ Returned200) =>
        /\ VersionAmongTags => ReturnedTag
        /\ ~VersionAmongTags => ReturnedBranch

\* C8 amended: after a 200 answer the result is false when some returned
\* tag's name equals the version and every entry before that tag in the
\* list is a tag object; it is true when no returned tag's name equals the
\* version, and also when an entry that is no object comes before the first
\* tag so named.
C8_TagIffNamedInOrder ==
    (BranchCalled /\ Returned200) =>
        /\ VersionFoundInOrder => ReturnedTag
        /\ ~VersionFoundInOrder => ReturnedBranch

\* a 200 answer whose second tag carries the version: classified as a tag
C8_Witness ==
    /\ BranchCalled /\ Returned200
    /\ Len(ReturnedEntries) >= 2
    /\ ~NamesVersion(1) /\ NamesVersion(2)
    /\ ReturnedTag

\* C9 as stated: when the query fails (transport exception, non-200 status,
\* or a body that is not a list of tag objects) the result is true for every
\* version, and nothing is raised.
C9_FailureMeansBranch ==
    BranchCalled =>
        /\ branch_result.raised = "none"
        /\ (response.kind = "raise" \/ ~Returned200 \/ ~BodyIsTagList)
              => ReturnedBranch

\* C9 amended: nothing is ever raised, and the result is true for every
\* version when the request raises, the status is not 200, the body is not
\* a JSON list, or the list holds an entry that is no object with no tag
\* named like the version before it; a list that names the version before
\* its first such entry is still classified as a tag.
C9_FailureMeansBranchInOrder ==
    BranchCalled =>
        /\ branch_result.raised = "none"
        /\ (response.kind = "raise" \/ ~Returned200 \/ ~BodyIsList
            \/ (~BodyIsTagList /\ ~VersionFoundInOrder))
              => ReturnedBranch
        /\ (Returned200 /\ VersionFoundInOrder) => ReturnedTag

\* a 200 answer with a body that cannot be parsed: classified as a branch
C9_Witness ==
    /\ BranchCalled /\ Returned200
    /\ response.body = NotJson
    /\ ReturnedBranch

(***************************************************************************)
(* Specification of repeated extraction: finders call extract_sha on the   *)
(* same text again and again, with tag-list requests in between.           *)
(***************************************************************************)
\* the inputs of test_sha_extraction and of the demo
TextBareSha ==
    <<"a", "1", "b", "2", "c", "3", "d", "4">>

TextImageTag ==
    <<"s", "t", "a", "c", "k", "s", "t", "a", "t", "e", "/", "a", "g", "e",
      "n", "t", ":", "7", ".", "5", "1", ".", "1", "-", "a", "1", "b", "2",
      "c", "3", "d", "4">>

TextRegistryTag ==
    <<"r", "e", "g", "i", "s", "t", "r", "y", ".", "e", "x", "a", "m", "p",
      "l", "e", ".", "c", "o", "m", "/", "s", "t", "a", "c", "k", "s", "t",
      "a", "t", "e", "/", "a", "g", "e", "n", "t", ":", "7", ".", "5", "1",
      ".", "1", "-", "a", "1", "b", "2", "c", "3", "d", "4">>

TextQuayTag ==
    <<"q", "u", "a", "y", ".", "i", "o", "/", "s", "t", "a", "c", "k", "s",
      "t", "a", "t", "e", "/", "s", "t", "a", "c", "k", "s", "t", "a", "t",
      "e", "-", "k", "8", "s", "-", "a", "g", "e", "n", "t", ":", "a", "1",
      "b", "2", "c", "3", "d", "4">>

TextGeneric ==
    <<"s", "o", "m", "e", "-", "t", "e", "x", "t", "-", "a", "1", "b", "2",
      "c", "3", "d", "4", "-", "m", "o", "r", "e", "-", "t", "e", "x", "t">>

TextInvalid ==
    <<"i", "n", "v", "a", "l", "i", "d", "-", "i", "n", "p", "u", "t">>

TextEmpty ==
    <<>>

TextDemoQuay ==
    <<"q", "u", "a", "y", ".", "i", "o", "/", "s", "t", "a", "c", "k", "s",
      "t", "a", "t", "e", "/", "s", "t", "a", "c", "k", "s", "t", "a", "t",
      "e", "-", "k", "8", "s", "-", "a", "g", "e", "n", "t", ":", "8", "b",
      "e", "5", "4", "d", "f", "8">>

RunTexts ==
    {TextBareSha, TextImageTag, TextRegistryTag, TextQuayTag, TextGeneric,
     TextInvalid, TextEmpty, TextDemoQuay}

InitPure ==
    /\ input_string \in RunTexts
    /\ sha_result = Unset
    /\ session = [f \in Finders |-> NewSession]
    /\ version = VersionMain
    /\ response = RaiseResp
    /\ branch_result = NoCall
    /\ NoObs
    /\ NoFront
    /\ NoRun

\* result = finder.extract_sha(input_str), by finder f
ExtractAgain(f) ==
    LET call == extract_sha(session[f], input_string)
    IN  /\ sha_result' = call.ret
        /\ session' = [session EXCEPT ![f] = call.self]
        /\ seen' = seen \cup {call.ret}
        /\ call_log' = call_log \cup {<<f, session[f]>>}
        /\ touched' = (touched \/ call.self # session[f])
        /\ UNCHANGED <<input_string, version, response, branch_result, run, front>>

\* finder.is_branch_version(tag), by finder f, between two extractions
BranchCheckBetween(f) ==
    \E r \in {RaiseResp, HttpResp(StatusOk, JList(<<>>))} :
        LET call == is_branch_version(session[f], JStr(version), r)
        IN  /\ session' = [session EXCEPT ![f] = call.self]
            /\ UNCHANGED <<input_string, sha_result, version, response,
                           branch_result, obs, front, run>>

NextPure ==
    \E f \in Finders : ExtractAgain(f) \/ BranchCheckBetween(f)

SpecPure ==
    InitPure /\ [][NextPure]_vars

AuthorName == <<"Jane Doe">>
AuthorDate == <<"2024-01-01T00:00:00Z">>
\* the html_url of the commit API carries the full 40-character SHA
ApiHtmlUrl == AgentRepo \o <<"/commit/", "<full sha>">>
\* a SHA of the integrations repository, longer than 8 characters
IntegSha == <<"0", "f", "1", "e", "2", "d", "3", "c", "4", "b">>

AuthorFull ==
    JDict({<<"name", JStr(AuthorName)>>, <<"date", JStr(AuthorDate)>>})
CommitDataFull == JDict({<<"author", AuthorFull>>})

\* commit objects of the agent repository, complete and partial
AgentCommitObjects ==
    {JDict({<<"html_url", JStr(ApiHtmlUrl)>>, <<"commit", CommitDataFull>>}),
     JDict({<<"html_url", JStr(ApiHtmlUrl)>>}),
     JDict({<<"html_url", JStr(ApiHtmlUrl)>>,
            <<"commit", JDict({<<"author", JNull>>})>>}),
     JDict({<<"html_url", JStr(ApiHtmlUrl)>>,
            <<"commit", JDict({<<"author",
                JDict({<<"name", JStr(AuthorName)>>})>>})>>}),
     JDict({<<"commit", CommitDataFull>>})}

AgentApiResponses ==
    {RaiseResp, HttpResp(StatusNotFound, JNull)}
        \cup {HttpResp(StatusOk, b) :
                b \in AgentCommitObjects
                        \cup {NotJson, JNull, JDict({}), JList(<<JNum(1)>>)}}

AgentPageResponses ==
    {RaiseResp, HttpResp(StatusNotFound, NotJson), HttpResp(StatusOk, NotJson)}

\* the values stackstate-deps.json may hold under the key
DepsValues ==
    {JStr(Version751), JStr(VersionMain), JStr(<<>>), JNull}

\* the parsed stackstate-deps.json files
DepsFiles ==
    {JDict({<<DepsKey, v>>}) : v \in DepsValues} \cup {JDict({}), JList(<<>>)}

\* {"type": "file", "content": c}
FileObject(c) ==
    JDict({<<"type", JStr(<<"file">>)>>, <<"content", c>>})

DepsApiResponses ==
    {RaiseResp, HttpResp(StatusNotFound, JNull)}
        \cup {HttpResp(StatusOk, b) :
                b \in {FileObject(B64(JsonText(d))) : d \in DepsFiles}
                        \cup {NotJson, JList(<<>>),
                              JDict({<<"type", JStr(<<"dir">>)>>}),
                              JDict({<<"type", JStr(<<"file">>)>>}),
                              FileObject(JStr(<<"%%%">>)),
                              FileObject(B64(PlainText))}}

DepsRawResponses ==
    {RaiseResp, HttpResp(StatusNotFound, NotJson)}
        \cup {HttpResp(StatusOk, b) : b \in DepsFiles \cup {NotJson}}

\* entries of the commits list of the integrations repository
IntegCommitObjects ==
    {JDict({<<"sha", JStr(IntegSha)>>, <<"commit", CommitDataFull>>}),
     JDict({<<"sha", JNull>>, <<"commit", CommitDataFull>>}),
     JDict({<<"commit", CommitDataFull>>}),
     JDict({<<"sha", JStr(IntegSha)>>,
            <<"commit", JDict({<<"author",
                JDict({<<"date", JStr(AuthorDate)>>})>>})>>}),
     JDict({<<"sha", JStr(IntegSha)>>})}

IntegListResponses ==
    {RaiseResp, HttpResp(StatusNotFound, JNull)}
        \cup {HttpResp(StatusOk, b) :
                b \in {JList(<<c>>) : c \in IntegCommitObjects \cup {JNum(1)}}
                        \cup {NotJson, JList(<<>>),
                              JDict({<<"message", JStr(VersionMain)>>})}}

IntegDirectResponses ==
    {RaiseResp, HttpResp(StatusNotFound, JNull)}
        \cup {HttpResp(StatusOk, b) :
                b \in IntegCommitObjects \cup {NotJson, JNull}}

\* a tag object of the tags API
TagNamed(v) == JDict({<<"name", JStr(v)>>})

\* the bodies the tag-list request of a run may get with status 200: lists
\* that name the version of the manifest and lists that do not, lists with
\* an entry that is no tag object before or after the tag, and bodies that
\* are no list
TagListBodies ==
    {JList(<<>>),
     JList(<<TagNamed(Version751)>>),
     JList(<<TagNamed(Version7513), TagNamed(VersionMain)>>),
     JList(<<JDict({}), TagNamed(Version751)>>),
     JList(<<JNum(1), TagNamed(Version751)>>),
     JList(<<TagNamed(VersionMain), JNum(1)>>),
     NotJson,
     JDict({<<"message", JStr(VersionMain)>>})}

TagListResponses ==
    {RaiseResp, HttpResp(StatusNotFound, JNull)}
        \cup {HttpResp(StatusOk, b) : b \in TagListBodies}

(***************************************************************************)
(* demo_workflow, a caller of find_integrations                            *)
(***************************************************************************)
\* test_input of demo_workflow
DemoInput == TextImageTag

\* "success, message = value": a tuple of another length cannot be unpacked
UnpackTwo(value) ==
    IF Len(value) = 2 THEN Ok(<<value[1], value[2]>>) ELSE Exc("ValueError")

\* line 49 of demo.py on the outcome of the call: the exception that leaves
\* demo_workflow, "none" when the two names are bound
demo_workflow(result) ==
    IF result.kind = "raise" THEN result.exc
    ELSE UnpackTwo(result.value).exc

(***************************************************************************)
(* Specification of the resolution: one finder, as cli find and the GUI    *)
(* create it, runs find_integrations again and again; every remote call is *)
(* one step, answered by the upstream host in any way it may.              *)
(***************************************************************************)
\* the finder of the process
MainFinder == 1

\* one request as the run issued it: which call, what for, and how it went;
\* a transport error has neither status nor body
Issued(req, arg, resp) ==
    [req |-> req, arg |-> arg, kind |-> resp.kind,
     status |-> IF resp.kind = "http" THEN resp.status ELSE 0,
     body |-> IF resp.kind = "http" THEN resp.body ELSE JNull]

Init ==
    /\ input_string = <<>>
    /\ sha_result = Unset
    /\ session = [f \in Finders |-> NewSession]
    /\ version = <<>>
    /\ response = RaiseResp
    /\ branch_result = NoCall
    /\ NoObs
    /\ NoFront
    /\ NoRun

\* the session of the finder after a request to host answered by resp
Sent(resp, host) ==
    [session EXCEPT ![MainFinder] = Connect(session[MainFinder], resp, host)]

\* faulty variant: the run goes on to the commit lookup without a SHA
FindStartNoCheck(text) ==
    /\ pc = "idle"
    /\ input_string' = text
    /\ sha' = extract_sha(session[MainFinder], text).ret
    /\ pc' = "agent_api"
    /\ outcome' = NoOutcome
    /\ trace' = <<>>
    /\ commit_info' = JNull
    /\ integrations_version' = JNull
    /\ integrations_commit_info' = JNull
    /\ UNCHANGED <<session, sha_result, version, response, branch_result, obs, front,
                   caller, outstanding>>

\* lines 236-240: find_integrations(text) up to its first remote call
FindStart(text) ==
    /\ pc = "idle"
    /\ LET call == extract_sha(session[MainFinder], text)
       IN  /\ input_string' = text
           /\ sha' = call.ret
           /\ session' = [session EXCEPT ![MainFinder] = call.self]
           /\ IF call.ret = None
              THEN /\ pc' = "returned"
                   /\ outcome' = Returns(<<FALSE, ExtractFailedMessage(text)>>)
              ELSE /\ pc' = "agent_api"
                   /\ outcome' = NoOutcome
    /\ trace' = <<>>
    /\ commit_info' = JNull
    /\ integrations_version' = JNull
    /\ integrations_commit_info' = JNull
    /\ UNCHANGED <<sha_result, version, response, branch_result, obs, front,
                   caller, outstanding>>

\* the steps of a run that stand before a remote call
RequestSteps ==
    {"agent_api", "agent_page", "deps_api", "deps_raw", "integ_list",
     "integ_direct", "tags"}

\* faulty variant: the session sends a request while another is unanswered
CanSendAlways(n) == n < 2

\* session.get returns with the answer and not before: the thread of the
\* run sends a request only when none of its requests is unanswered
CanSend(n) == n = 0

\* the call of session.get at the step the run stands before: the request
\* leaves, the run waits for the answer
SendRequest ==
    /\ pc \in RequestSteps
    /\ CanSend(outstanding)
    /\ outstanding' = outstanding + 1
    /\ UNCHANGED <<input_string, sha, commit_info, integrations_version,
                   integrations_commit_info, trace, outcome, pc, session,
                   sha_result, version, response, branch_result, obs, front,
                   caller>>

\* the answer to the request of lines 91-95 and, when get_agent_commit
\* returns here, lines 244-247
AgentApiRequest(resp) ==
    /\ pc = "agent_api"
    /\ outstanding = 1
    /\ outstanding' = 0
    /\ trace' = Append(trace, Issued("agent_api", sha, resp))
    /\ session' = Sent(resp, HostApi)
    /\ LET step == AgentCommitPrimary(resp)
       IN  IF step.next = "fallback"
           THEN /\ pc' = "agent_page"
                /\ UNCHANGED <<commit_info, outcome>>
           ELSE LET after == AfterAgentCommit(sha, step.r)
                IN  /\ pc' = after.pc
                    /\ outcome' = after.outcome
                    /\ commit_info' = IF step.r.exc = "none" THEN step.r.val
                                      ELSE JNull
    /\ UNCHANGED <<input_string, sha, integrations_version,
                   integrations_commit_info, sha_result, version, response,
                   branch_result, obs, front,
                   caller>>

\* lines 98-109, then lines 244-247
AgentPageRequest(resp) ==
    /\ pc = "agent_page"
    /\ outstanding = 1
    /\ outstanding' = 0
    /\ trace' = Append(trace, Issued("agent_page", sha, resp))
    /\ session' = Sent(resp, HostWeb)
    /\ LET r == AgentCommitFallback(sha, resp)
           after == AfterAgentCommit(sha, r)
       IN  /\ pc' = after.pc
           /\ outcome' = after.outcome
           /\ commit_info' = IF r.exc = "none" THEN r.val ELSE JNull
    /\ UNCHANGED <<input_string, sha, integrations_version,
                   integrations_commit_info, sha_result, version, response,
                   branch_result, obs, front,
                   caller>>

\* lines 186-198 and, when get_stackstate_deps returns here, lines 251-257
DepsApiRequest(resp) ==
    /\ pc = "deps_api"
    /\ outstanding = 1
    /\ outstanding' = 0
    /\ trace' = Append(trace, Issued("deps_api", sha, resp))
    /\ session' = Sent(resp, HostApi)
    /\ LET step == DepsPrimary(resp)
       IN  IF step.next = "fallback"
           THEN /\ pc' = "deps_raw"
                /\ UNCHANGED <<integrations_version, outcome>>
           ELSE LET after == AfterDeps(sha, step.r)
                IN  /\ pc' = after.pc
                    /\ outcome' = after.outcome
                    /\ integrations_version' =
                          IF step.r.exc = "none" THEN step.r.val ELSE JNull
    /\ UNCHANGED <<input_string, sha, commit_info, integrations_commit_info,
                   sha_result, version, response, branch_result, obs, front,
                   caller>>

\* lines 201-211, then lines 251-257
DepsRawRequest(resp) ==
    /\ pc = "deps_raw"
    /\ outstanding = 1
    /\ outstanding' = 0
    /\ trace' = Append(trace, Issued("deps_raw", sha, resp))
    /\ session' = Sent(resp, HostRaw)
    /\ LET r == DepsFallback(resp)
           after == AfterDeps(sha, r)
       IN  /\ pc' = after.pc
           /\ outcome' = after.outcome
           /\ integrations_version' = IF r.exc = "none" THEN r.val ELSE JNull
    /\ UNCHANGED <<input_string, sha, commit_info, integrations_commit_info,
                   sha_result, version, response, branch_result, obs, front,
                   caller>>

\* lines 123-130 and, when get_integrations_commit returns here, line 260
IntegListRequest(resp) ==
    /\ pc = "integ_list"
    /\ outstanding = 1
    /\ outstanding' = 0
    /\ trace' = Append(trace,
                       Issued("integ_list", Str(integrations_version), resp))
    /\ session' = Sent(resp, HostApi)
    /\ LET step == IntegCommitPrimary(resp)
       IN  IF step.next = "fallback"
           THEN /\ pc' = "integ_direct"
                /\ UNCHANGED <<integrations_commit_info, outcome>>
           ELSE LET after == AfterIntegCommit(step.r)
                IN  /\ pc' = after.pc
                    /\ outcome' = after.outcome
                    /\ integrations_commit_info' =
                          IF step.r.exc = "none" THEN step.r.val ELSE JNull
    /\ UNCHANGED <<input_string, sha, commit_info, integrations_version,
                   sha_result, version, response, branch_result, obs, front,
                   caller>>

\* lines 133-142, then line 260
IntegDirectRequest(resp) ==
    /\ pc = "integ_direct"
    /\ outstanding = 1
    /\ outstanding' = 0
    /\ trace' = Append(trace,
                       Issued("integ_direct", Str(integrations_version), resp))
    /\ session' = Sent(resp, HostApi)
    /\ LET r == IntegCommitFallback(resp)
           after == AfterIntegCommit(r)
       IN  /\ pc' = after.pc
           /\ outcome' = after.outcome
           /\ integrations_commit_info' = IF r.exc = "none" THEN r.val
                                          ELSE JNull
    /\ UNCHANGED <<input_string, sha, commit_info, integrations_version,
                   sha_result, version, response, branch_result, obs, front,
                   caller>>

\* line 263, is_branch_version with its tag-list request, and lines 265-314
TagListRequest(resp) ==
    /\ pc = "tags"
    /\ outstanding = 1
    /\ outstanding' = 0
    /\ trace' = Append(trace, Issued("tags", <<>>, resp))
    /\ LET branch == is_branch_version(session[MainFinder],
                                       integrations_version, resp)
       IN  /\ session' = [session EXCEPT ![MainFinder] = branch.self]
           /\ outcome' = Report(sha, commit_info, integrations_commit_info,
                                integrations_version, branch)
    /\ pc' = "returned"
    /\ UNCHANGED <<input_string, sha, commit_info, integrations_version,
                   integrations_commit_info, sha_result, version, response,
                   branch_result, obs, front,
                   caller>>

\* demo.py line 49: demo_workflow unpacks what the call on its test input
\* handed back
DemoUnpack ==
    /\ pc = "returned"
    /\ input_string = DemoInput
    /\ pc' = "unpacked"
    /\ caller' = [who |-> "demo_workflow", exc |-> demo_workflow(outcome)]
    /\ UNCHANGED <<input_string, sha, commit_info, integrations_version,
                   integrations_commit_info, trace, outcome, session,
                   sha_result, version, response, branch_result, obs, front,
                   outstanding>>

\* the caller has the outcome; the locals of the call are gone
FindReturn ==
    /\ pc \in {"returned", "unpacked"}
    /\ pc' = "idle"
    /\ caller' = NoCaller
    /\ input_string' = <<>>
    /\ sha' = Unset
    /\ commit_info' = JNull
    /\ integrations_version' = JNull
    /\ integrations_commit_info' = JNull
    /\ trace' = <<>>
    /\ outcome' = NoOutcome
    /\ UNCHANGED <<session, sha_result, version, response, branch_result, obs, front,
                   outstanding>>

Next ==
    \/ \E text \in RunTexts : FindStart(text)
    \/ SendRequest
    \/ \E resp \in AgentApiResponses : AgentApiRequest(resp)
    \/ \E resp \in AgentPageResponses : AgentPageRequest(resp)
    \/ \E resp \in DepsApiResponses : DepsApiRequest(resp)
    \/ \E resp \in DepsRawResponses : DepsRawRequest(resp)
    \/ \E resp \in IntegListResponses : IntegListRequest(resp)
    \/ \E resp \in IntegDirectResponses : IntegDirectRequest(resp)
    \/ \E resp \in TagListResponses : TagListRequest(resp)
    \/ DemoUnpack
    \/ FindReturn

Spec ==
    Init /\ [][Next]_vars

(***************************************************************************)
(* Vocabulary of the claims about find_integrations, stated on the         *)
(* requests of the run and on its outcome.                                 *)
(***************************************************************************)
RequestsOf(kinds) ==
    {k \in 1..Len(trace) : trace[k].req \in kinds}

\* the request of the given kind was issued and did not answer 200
FailedRequest(kind) ==
    \E k \in RequestsOf({kind}) :
        trace[k].kind = "raise" \/ trace[k].status # 200

\* the run is over and its caller holds the outcome
RunOver ==
    pc = "returned"

\* a revision id was extracted and neither lookup tier found it: the API
\* request failed, and the commit page request, where one was made, too
RevisionNotFound ==
    /\ RunOver
    /\ RequestsOf({"agent_api"}) # {}
    /\ FailedRequest("agent_api")
    /\ RequestsOf({"agent_page"}) # {} => FailedRequest("agent_page")

\* C10: when the extracted revision id is not found upstream, the run
\* returns success = false with a message that contains the revision id,
\* and it has issued no manifest, integrations-commit or tag-list request.
C10_NotFoundShortCircuit ==
    RevisionNotFound =>
        /\ outcome.kind = "return"
        /\ outcome.value[1] = FALSE
        /\ Len(outcome.value) = 2
        /\ Contains(outcome.value[2], sha)
        /\ RequestsOf({"deps_api", "deps_raw", "integ_list", "integ_direct",
                       "tags"}) = {}

\* both lookup requests were made and failed, for a SHA taken from a tag
C10_Witness ==
    /\ RevisionNotFound
    /\ RequestsOf({"agent_page"}) # {}
    /\ input_string = TextDemoQuay
    /\ outcome = Returns(<<FALSE, CommitNotFoundMessage(SubSeq(TextDemoQuay,
                               Len(TextDemoQuay) - 7, Len(TextDemoQuay)))>>)

(***************************************************************************)
(* Vocabulary of the claims about the manifest step.                       *)
(***************************************************************************)
\* the requests of the run that were answered with status 200
Answered200(kind) ==
    {k \in RequestsOf({kind}) : trace[k].kind = "http" /\ trace[k].status = 200}

\* the revision was found upstream: the commit API answered with a commit
\* object, or the commit page answered 200
RevisionFound ==
    \/ \E k \in Answered200("agent_api") :
          trace[k].body.t = "dict" /\ trace[k].body.d # {}
    \/ Answered200("agent_page") # {}

\* the body is a file object of the contents API whose content is the
\* base64 form of a JSON text
IsEncodedManifest(b) ==
    /\ b.t = "dict"
    /\ <<"type", JStr(<<"file">>)>> \in b.d
    /\ \E p \in b.d : p[1] = "content" /\ p[2].t = "b64"
                      /\ p[2].of.t = "jsontext"

\* the parsed manifests the requests of the run delivered
Manifests ==
    {(CHOOSE p \in trace[k].body.d : p[1] = "content")[2].of.of :
        k \in {j \in Answered200("deps_api") :
                  IsEncodedManifest(trace[j].body)}}
    \cup {trace[k].body :
            k \in {j \in Answered200("deps_raw") : trace[j].body.t # "notjson"}}

\* the manifest has no STACKSTATE_INTEGRATIONS_VERSION field
LacksVersionField(m) ==
    m.t # "dict" \/ ~\E p \in m.d : p[1] = "STACKSTATE_INTEGRATIONS_VERSION"

\* the manifest step was reached, and no manifest was delivered or the one
\* delivered lacks the field
ManifestMissing ==
    /\ RunOver
    /\ RevisionFound
    /\ RequestsOf({"deps_api"}) # {}
    /\ \A m \in Manifests : LacksVersionField(m)

\* the words of the message that name the manifest
ManifestPhrase ==
    "Could not find integrations version in stackstate-deps.json for SHA: "

\* C11: when the revision is found upstream but the manifest is unavailable
\* or lacks the STACKSTATE_INTEGRATIONS_VERSION field, the run returns
\* success = false with a message that names the manifest and the revision
\* id, and it has issued no integrations-commit and no tag-list request.
C11_ManifestShortCircuit ==
    ManifestMissing =>
        /\ outcome.kind = "return"
        /\ Len(outcome.value) = 2
        /\ outcome.value[1] = FALSE
        /\ outcome.value[2] = <<ManifestPhrase>> \o sha
        /\ RequestsOf({"integ_list", "integ_direct", "tags"}) = {}

\* the contents API delivered a manifest without the field, and the run
\* ended with the message for the SHA taken from the registry tag
C11_Witness ==
    /\ ManifestMissing
    /\ Manifests = {JDict({})}
    /\ RequestsOf({"deps_raw"}) = {}
    /\ input_string = TextQuayTag
    /\ outcome.kind = "return"
    /\ outcome.value[2] = <<ManifestPhrase>> \o TextBareSha

(***************************************************************************)
(* Vocabulary of the claims about the extraction step of a run.            *)
(***************************************************************************)
\* a run is under way or just over on an input that has no 8 hexadecimal
\* characters in a row, so that no revision id can be extracted from it
NoRevisionId ==
    /\ pc # "idle"
    /\ EightHexPositions(input_string) = {}

\* the words of the extraction-failure message
ExtractPhrase ==
    "Could not extract 8-character SHA from: "

\* C12: when no revision id can be extracted from the input, the run is
\* over at once: it returns success = false with the extraction-failure
\* message, and it has issued no HTTP request of any kind.
C12_NoIdNoRequest ==
    NoRevisionId =>
        /\ RunOver
        /\ outcome.kind = "return"
        /\ Len(outcome.value) = 2
        /\ outcome.value[1] = FALSE
        /\ outcome.value[2] = <<ExtractPhrase>> \o input_string
        /\ trace = <<>>

\* the run on "invalid-input" has returned
C12_Witness ==
    /\ NoRevisionId
    /\ input_string = TextInvalid
    /\ outcome.kind = "return"
    /\ outcome.value[1] = FALSE
    /\ trace = <<>>

(***************************************************************************)
(* Vocabulary of the claims about the report of a run, stated on the       *)
(* answers the requests got, on the commit objects the run holds and on    *)
(* the outcome.                                                            *)
(***************************************************************************)
\* the values a JSON value holds under a key: one value, or none where
\* the key is missing or the value is no object
Field(v, k) ==
    IF v.t = "dict" THEN {p[2] : p \in {q \in v.d : q[1] = k}} ELSE {}

\* the dependency versions the manifests of the run name
DependencyVersions ==
    UNION {Field(m, "STACKSTATE_INTEGRATIONS_VERSION") :
              m \in {x \in Manifests : x.t = "dict"}}

\* steps 1-3 succeeded: a revision id was extracted and found upstream, and
\* the manifest names a dependency version
StepsSucceeded ==
    /\ RunOver
    /\ RevisionFound
    /\ \E v \in DependencyVersions : v.t = "str" /\ v.s # <<>>

\* the tag-list request was answered 200 with a list of tag objects
TagListDelivered ==
    \E k \in Answered200("tags") :
        /\ trace[k].body.t = "list"
        /\ \A i \in 1..Len(trace[k].body.l) : trace[k].body.l[i].t = "dict"

\* the names of the tags the tag-list request returned
ReturnedTagNames ==
    UNION {UNION {Field(trace[k].body.l[i], "name") :
                     i \in 1..Len(trace[k].body.l)} :
              k \in {j \in Answered200("tags") : trace[j].body.t = "list"
                        /\ \A i \in 1..Len(trace[j].body.l) :
                              trace[j].body.l[i].t = "dict"}}

\* the tag-list query succeeded with the dependency version among the names
VersionTagged ==
    TagListDelivered /\ DependencyVersions \cap ReturnedTagNames # {}

\* the tag-list query succeeded without the dependency version among them
VersionUntagged ==
    TagListDelivered /\ DependencyVersions \cap ReturnedTagNames = {}

\* the author of a commit object, where it has one, has both name and date
AuthorComplete(info) ==
    info.t = "dict" =>
        \A c \in {x \in Field(info, "commit") : x.t = "dict"} :
            \A a \in {x \in Field(c, "author") : x.t = "dict" /\ x.d # {}} :
                Field(a, "name") # {} /\ Field(a, "date") # {}

\* every part of the commit objects the report reads can be read: authors
\* are complete, and the integrations commit is an object (or absent or
\* empty) whose sha, where it has one, is a string
CommitsReadable ==
    /\ AuthorComplete(commit_info)
    /\ AuthorComplete(integrations_commit_info)
    /\ integrations_commit_info.t \in {"null", "dict"}
    /\ integrations_commit_info.t = "dict" =>
          \A x \in Field(integrations_commit_info, "sha") : x.t = "str"

\* the parts of the report
WarningPhrase == "WARNING: This integrations version ("
ReleasedLabel == "(RELEASED TAG)"
BranchLabel == "(DEVELOPMENT BRANCH)"

\* the symbol stands in the message
Has(message, symbol) ==
    \E i \in 1..Len(message) : message[i] = symbol

\* the run returned success with the branch flag b
Succeeded(b) ==
    /\ outcome.kind = "return"
    /\ Len(outcome.value) = 3
    /\ outcome.value[1] = TRUE
    /\ outcome.value[3] = b

\* the report of a released tag: no warning block, the version labelled
ReleasedReport ==
    /\ Succeeded(FALSE)
    /\ ~Has(outcome.value[2], WarningPhrase)
    /\ Has(outcome.value[2], ReleasedLabel)
    /\ ~Has(outcome.value[2], BranchLabel)

\* C13 as stated: when steps 1-3 succeed and the tag-list query succeeds
\* with the dependency version among the tag names, the run returns
\* success = true and isBranch = false, and the report has no warning block
\* and labels the version as a released tag.
C13_ReleasedTag ==
    (StepsSucceeded /\ VersionTagged) => ReleasedReport

\* the run ended with the exception exc leaving find_integrations
Raised(exc) ==
    RunOver /\ outcome.kind = "raise" /\ outcome.exc = exc

\* an agent commit object whose author has a name and no date
AuthorWithoutDate ==
    JDict({<<"author", JDict({<<"name", JStr(AuthorName)>>})>>})

\* the case where C13 fails: steps 1-3 succeeded, the tag list holds the
\* version 7.51.1 of the manifest, the integrations commit is complete, and
\* the author of the agent commit has no date: line 274 raises KeyError
C13_Failing ==
    /\ StepsSucceeded
    /\ VersionTagged
    /\ DependencyVersions = {JStr(Version751)}
    /\ Field(commit_info, "commit") = {AuthorWithoutDate}
    /\ Field(integrations_commit_info, "commit") = {CommitDataFull}
    /\ Raised("KeyError")

\* C13, where the commit objects are readable: with no author that lacks
\* name or date, and an integrations commit that is an object whose sha is
\* a string, the run returns the report of a released tag.
C13_ReleasedTagReadable ==
    (StepsSucceeded /\ VersionTagged /\ CommitsReadable) => ReleasedReport

\* the warning block stands in the message and names the version v
WarnsAbout(message, v) ==
    \E i \in 1..Len(message) :
        /\ message[i] = WarningPhrase
        /\ i + Len(v) <= Len(message)
        /\ SubSeq(message, i + 1, i + Len(v)) = v

\* the report of a development branch: the flag, the warning block naming
\* the dependency version, and the label
BranchReport ==
    /\ Succeeded(TRUE)
    /\ \A v \in DependencyVersions : WarnsAbout(outcome.value[2], v.s)
    /\ Has(outcome.value[2], BranchLabel)
    /\ ~Has(outcome.value[2], ReleasedLabel)

\* C14 as stated: when steps 1-3 succeed and the dependency version is not
\* among the returned tag names, the run returns success = true and
\* isBranch = true, and the report contains the warning block naming that
\* version.
C14_UnknownVersion ==
    (StepsSucceeded /\ VersionUntagged) => BranchReport

\* the case where C14 fails: steps 1-3 succeeded with a complete agent
\* commit, the manifest names main, the tag list holds other names only, and
\* the sha of the integrations commit is null: line 286 raises TypeError
C14_Failing ==
    /\ StepsSucceeded
    /\ VersionUntagged
    /\ ReturnedTagNames # {}
    /\ DependencyVersions = {JStr(VersionMain)}
    /\ Field(commit_info, "commit") = {CommitDataFull}
    /\ Field(integrations_commit_info, "sha") = {JNull}
    /\ Raised("TypeError")

\* C14, where the commit objects are readable: the run returns the report
\* of a development branch.
C14_UnknownVersionReadable ==
    (StepsSucceeded /\ VersionUntagged /\ CommitsReadable) => BranchReport

\* every request of these kinds that the run issued ended in a transport
\* error or in a status other than 200, and one was issued
AllFailed(kinds) ==
    /\ RequestsOf(kinds) # {}
    /\ \A k \in RequestsOf(kinds) :
          trace[k].kind = "raise" \/ trace[k].status # 200

IntegQueryFailed == AllFailed({"integ_list", "integ_direct"})
TagQueryFailed == AllFailed({"tags"})

\* the message has every section of the report
CompleteReport(message) ==
    \A part \in {"Success! Found integrations source code:",
                 "SUSE Observability Agent Commit:", "Integrations Commit:",
                 "  Version: ", "  SHA: ", "  URL: ", "  Date: ",
                 "  Committer: ",
                 "Click the integrations URL above to view the source code."} :
        Has(message, part)

\* the message ends with an integrations section whose SHA, date and
\* committer are "N/A"
IntegrationsUnknown(message) ==
    \E i \in 1..(Len(message) - 4), j \in 1..Len(message) :
        /\ SubSeq(message, i, i + 4) = <<"\n", "  SHA: ", "N", "/", "A">>
        /\ i < j
        /\ SubSeq(message, j, Len(message)) =
              <<"\n", "  Date: ", "N", "/", "A",
                "\n", "  Committer: ", "N", "/", "A",
                "\n", "\n",
                "Click the integrations URL above to view the source code.">>

\* what C15 promises of a run whose steps 1-3 succeeded
DegradedReport ==
    /\ outcome.kind = "return"
    /\ Len(outcome.value) = 3
    /\ outcome.value[1] = TRUE
    /\ CompleteReport(outcome.value[2])
    /\ IntegQueryFailed => IntegrationsUnknown(outcome.value[2])
    /\ TagQueryFailed => outcome.value[3] = TRUE

\* C15 as stated: once steps 1-3 have succeeded, the run returns
\* success = true with a complete report whatever happens in the
\* integrations-commit query and in the tag-list query (non-200 or transport
\* error in either or both): the integrations date, committer and SHA are
\* "N/A" and a failed tag-list query gives isBranch = true.
C15_BestEffort ==
    (StepsSucceeded /\ (IntegQueryFailed \/ TagQueryFailed)) => DegradedReport

\* the case where C15 fails: steps 1-3 succeeded, both best-effort queries
\* failed, one by status and one by a transport error, and the author of
\* the agent commit has no date: line 274 raises KeyError
C15_Failing ==
    /\ StepsSucceeded
    /\ IntegQueryFailed
    /\ TagQueryFailed
    /\ \E k \in RequestsOf({"integ_direct"}) : trace[k].status = 404
    /\ \E k \in RequestsOf({"tags"}) : trace[k].kind = "raise"
    /\ Field(commit_info, "commit") = {AuthorWithoutDate}
    /\ Raised("KeyError")

\* C15, where the commit objects are readable: the report is produced and
\* degrades as stated.
C15_BestEffortReadable ==
    (StepsSucceeded /\ (IntegQueryFailed \/ TagQueryFailed) /\ CommitsReadable)
        => DegradedReport

\* C16 as stated: for every input text and every combination of upstream
\* answers, 200 answers with partial data among them, the run hands an
\* outcome to its caller and no exception leaves find_integrations.
C16_NeverRaises ==
    RunOver => outcome.kind = "return"

\* an integrations commit whose author has a date and no name
AuthorWithoutName ==
    JDict({<<"author", JDict({<<"date", JStr(AuthorDate)>>})>>})

\* the case where C16 fails: steps 1-3 succeeded with a complete agent
\* commit, the tag list was answered, and the author of the integrations
\* commit has no name: line 285 raises KeyError
C16_Failing ==
    /\ StepsSucceeded
    /\ Answered200("tags") # {}
    /\ Field(commit_info, "commit") = {CommitDataFull}
    /\ Field(integrations_commit_info, "commit") = {AuthorWithoutName}
    /\ Field(integrations_commit_info, "sha") = {JStr(IntegSha)}
    /\ Raised("KeyError")

\* C16, the cases apart: an exception leaves find_integrations exactly when
\* the commit API answered 200 with a non-empty body that is no object, or
\* the report was reached with a commit object that is not readable.
C16_RaisesExactlyOnPartialData ==
    RunOver =>
        (outcome.kind = "raise" <=>
            \/ commit_info.t = "list" /\ commit_info.l # <<>>
            \/ RequestsOf({"tags"}) # {} /\ ~CommitsReadable)

(***************************************************************************)
(* The shape of the value find_integrations returns.                       *)
(***************************************************************************)
\* demo_workflow has run line 49 on a value find_integrations returned
DemoUnpacked ==
    pc = "unpacked" /\ caller.who = "demo_workflow" /\ outcome.kind = "return"

\* C17 as stated: find_integrations returns a tuple of two elements
\* (success, message) on every path, success as well as failure, so that
\* demo_workflow, which unpacks exactly two values, works for every outcome.
C17_TwoTuple ==
    /\ outcome.kind = "return" => Len(outcome.value) = 2
    /\ DemoUnpacked => caller.exc = "none"

\* the case where C17 fails: the run of demo_workflow on its test input
\* succeeded, find_integrations returned three elements, and the unpacking
\* of line 49 of demo.py raised ValueError
C17_Failing ==
    /\ DemoUnpacked
    /\ input_string = TextImageTag
    /\ outcome.value[1] = TRUE
    /\ Len(outcome.value) = 3
    /\ caller.exc = "ValueError"

\* C17, the cases apart: a failure is returned as two elements and unpacks,
\* a success as three and does not.
C17_ShapeBySuccess ==
    /\ outcome.kind = "return" =>
          Len(outcome.value) = IF outcome.value[1] THEN 3 ELSE 2
    /\ DemoUnpacked =>
          (caller.exc = "none" <=> outcome.value[1] = FALSE)

(***************************************************************************)
(* Specification of the revision ids of a run: find_integrations is called *)
(* once on an arbitrary input text and runs up to the end of the manifest  *)
(* step, with each lookup answered or not.                                 *)
(***************************************************************************)
\* answers to the two commit requests: found, not found, no answer
IdAgentApiAnswers ==
    {RaiseResp, HttpResp(StatusNotFound, JNull),
     HttpResp(StatusOk, JDict({<<"html_url", JStr(ApiHtmlUrl)>>}))}

IdAgentPageAnswers ==
    {HttpResp(StatusNotFound, NotJson), HttpResp(StatusOk, NotJson)}

\* answers to the two manifest requests
IdDepsApiAnswers ==
    {HttpResp(StatusNotFound, JNull),
     HttpResp(StatusOk,
              FileObject(B64(JsonText(JDict({<<DepsKey, JStr(VersionMain)>>})))))}

IdDepsRawAnswers ==
    {HttpResp(StatusNotFound, NotJson),
     HttpResp(StatusOk, JDict({<<DepsKey, JStr(VersionMain)>>}))}

InitIds ==
    /\ input_string \in Texts(MaxRunSegs)
    /\ sha_result = Unset
    /\ session = [f \in Finders |-> NewSession]
    /\ version = <<>>
    /\ response = RaiseResp
    /\ branch_result = NoCall
    /\ NoObs
    /\ NoFront
    /\ NoRun

NextIds ==
    \/ FindStart(input_string)
    \/ SendRequest
    \/ \E resp \in IdAgentApiAnswers : AgentApiRequest(resp)
    \/ \E resp \in IdAgentPageAnswers : AgentPageRequest(resp)
    \/ \E resp \in IdDepsApiAnswers : DepsApiRequest(resp)
    \/ \E resp \in IdDepsRawAnswers : DepsRawRequest(resp)

SpecIds ==
    InitIds /\ [][NextIds]_vars

\* the requests that carry a revision id: those of get_agent_commit and of
\* get_stackstate_deps
IdRequests ==
    RequestsOf({"agent_api", "agent_page", "deps_api", "deps_raw"})

\* extract_sha has returned a value other than not-found in this run
IdExtracted ==
    pc # "idle" /\ sha # None

\* C18: every value extract_sha returns other than not-found has length
\* exactly 8 with every character in [0-9a-fA-F], so that every revision id
\* find_integrations passes to get_agent_commit and get_stackstate_deps is
\* such a value: the one extract_sha returned.
C18_IdInvariant ==
    /\ IdExtracted => IsEightHex(sha)
    /\ \A k \in IdRequests : IsEightHex(trace[k].arg) /\ trace[k].arg = sha

\* a run on a versioned tag with digits around it: the id went out with
\* both commit requests and both manifest requests
C18_Witness ==
    /\ IdExtracted
    /\ VersionedTags(input_string) # {}
    /\ Len(input_string) > 15
    /\ {trace[k].req : k \in IdRequests}
          = {"agent_api", "agent_page", "deps_api", "deps_raw"}
    /\ \A k \in IdRequests : trace[k].arg = SegHexA

(***************************************************************************)
(* Vocabulary of the claims about the fallback requests of the lookups,    *)
(* stated on the requests of a run of Spec.                                *)
(***************************************************************************)
\* get_agent_commit has returned
AgentLookupOver ==
    pc \notin {"idle", "agent_api", "agent_page"}

\* the request of the kind ended in a transport error
TransportError(kind) ==
    \E k \in RequestsOf({kind}) : trace[k].kind = "raise"

\* the request of the kind was answered with a status other than 200
OtherStatus(kind) ==
    \E k \in RequestsOf({kind}) :
        trace[k].kind = "http" /\ trace[k].status # 200

\* the request of kind later follows the request of kind earlier, for the
\* same argument
FollowedBy(earlier, later) ==
    \E i \in RequestsOf({earlier}), j \in RequestsOf({later}) :
        i < j /\ trace[i].arg = trace[j].arg

\* C19 as stated: whenever the primary commit request does not return
\* success, by a status other than 200 or by a transport error, the
\* request to the commit page for the same id is issued before
\* get_agent_commit returns not-found; it is never issued when the primary
\* request returned 200.
C19_AgentFallback ==
    AgentLookupOver =>
        /\ (OtherStatus("agent_api") \/ TransportError("agent_api"))
              => FollowedBy("agent_api", "agent_page")
        /\ Answered200("agent_api") # {} => RequestsOf({"agent_page"}) = {}

\* the case where C19 fails: the primary request ended in a transport
\* error and the run returned not-found after that one request
C19_Failing ==
    /\ RunOver
    /\ TransportError("agent_api")
    /\ Len(trace) = 1
    /\ outcome.kind = "return"
    /\ outcome.value[1] = FALSE
    /\ input_string = TextGeneric

\* C19, the cases apart: the commit page is requested, for the same id,
\* exactly when the primary request was answered with a status other than
\* 200; after a transport error and after a 200 it is not.
C19_AgentFallbackOnStatus ==
    AgentLookupOver =>
        /\ OtherStatus("agent_api") <=> RequestsOf({"agent_page"}) # {}
        /\ RequestsOf({"agent_page"}) # {}
              => FollowedBy("agent_api", "agent_page")

\* get_stackstate_deps has returned
DepsLookupOver ==
    /\ RequestsOf({"deps_api"}) # {}
    /\ pc \notin {"deps_api", "deps_raw"}

\* the body is a file object whose content cannot be base64-decoded and
\* parsed as JSON, or no JSON at all
Undecodable(b) ==
    \/ b.t = "notjson"
    \/ /\ b.t = "dict"
       /\ <<"type", JStr(<<"file">>)>> \in b.d
       /\ Field(b, "content") # {}
       /\ ~IsEncodedManifest(b)

\* the primary manifest request was answered 200 with such a body
UndecodableAnswer ==
    \E k \in Answered200("deps_api") : Undecodable(trace[k].body)

\* C20 as stated: whenever the primary file-contents request fails (a
\* status other than 200, a transport error, or a 200 body that cannot be
\* base64-decoded or parsed as JSON), the raw-content URL for the same
\* revision is requested before get_stackstate_deps returns not-found.
C20_DepsFallback ==
    (DepsLookupOver /\ (\/ OtherStatus("deps_api")
                        \/ TransportError("deps_api")
                        \/ UndecodableAnswer))
        => FollowedBy("deps_api", "deps_raw")

\* the case where C20 fails: the contents API answered 200 with a file
\* whose content is no base64 of a JSON text, and the run returned the
\* manifest message without a request to the raw URL
C20_Failing ==
    /\ RunOver
    /\ UndecodableAnswer
    /\ \E k \in Answered200("deps_api") : trace[k].body.t = "dict"
    /\ RequestsOf({"deps_raw"}) = {}
    /\ outcome.kind = "return"
    /\ outcome.value[2] = <<ManifestPhrase>> \o sha

\* C20, the cases apart: the raw URL is requested, for the same revision,
\* exactly when the primary request was answered with a status other than
\* 200 or with a JSON object that is no file; the version the run goes on
\* with is the one the raw manifest holds under the key.
C20_DepsFallbackOnStatusOrType ==
    DepsLookupOver =>
        /\ RequestsOf({"deps_raw"}) # {} <=>
              \/ OtherStatus("deps_api")
              \/ \E k \in Answered200("deps_api") :
                    /\ trace[k].body.t = "dict"
                    /\ <<"type", JStr(<<"file">>)>> \notin trace[k].body.d
        /\ RequestsOf({"deps_raw"}) # {} => FollowedBy("deps_api", "deps_raw")
        /\ \A k \in Answered200("deps_raw") :
              trace[k].body.t = "dict" =>
                  \/ Field(trace[k].body, "STACKSTATE_INTEGRATIONS_VERSION")
                        = {integrations_version}
                  \/ /\ Field(trace[k].body,
                              "STACKSTATE_INTEGRATIONS_VERSION") = {}
                     /\ integrations_version = JNull

\* get_stackstate_deps returned without an exception: the run went on, or
\* it ended with a returned outcome
DepsReturned ==
    (RunOver /\ RequestsOf({"integ_list", "integ_direct", "tags"}) = {})
        => outcome.kind = "return"

\* C21: get_stackstate_deps never raises: whatever the content of the
\* answers on either tier (malformed base64, malformed JSON, JSON that is
\* no object, a missing key) it returns None, and it returns a version only
\* when the key STACKSTATE_INTEGRATIONS_VERSION was read from a 200 answer.
C21_DepsNeverRaises ==
    DepsLookupOver =>
        /\ DepsReturned
        /\ (\A m \in Manifests : LacksVersionField(m))
              => integrations_version = JNull
        /\ integrations_version # JNull
              => \E m \in Manifests :
                    Field(m, "STACKSTATE_INTEGRATIONS_VERSION")
                        = {integrations_version}

\* after a 404 of the contents API the raw URL answered 200 with a JSON
\* list, and the run ended with a returned failure
C21_Witness ==
    /\ DepsLookupOver
    /\ RunOver
    /\ OtherStatus("deps_api")
    /\ Manifests = {JList(<<>>)}
    /\ integrations_version = JNull
    /\ outcome.kind = "return"

\* the ids whose commit page answered 200, the API having answered another
\* status before
ConfirmedByPage ==
    {trace[k].arg : k \in Answered200("agent_page")}

\* the agent block of a report for an id known from its commit page only
PageConfirmedBlock(a) ==
    <<"SUSE Observability Agent Commit:", "\n", "  SHA: ">> \o a
        \o <<"\n", "  URL: ">> \o CommitUrl(a)
        \o <<"\n", "  Date: ">> \o NA
        \o <<"\n", "  Committer: ">> \o NA
        \o <<"\n">>

\* C22: when the revision is confirmed only by the commit page request the
\* resolution goes on to the manifest, and a successful report shows the
\* commit page URL of the id as the agent URL, with Date and Committer
\* both "N/A".
C22_PageConfirmed ==
    \A a \in ConfirmedByPage :
        /\ AgentLookupOver
              => (pc = "deps_api" \/ RequestsOf({"deps_api"}) # {})
        /\ (Succeeded(TRUE) \/ Succeeded(FALSE))
              => Contains(outcome.value[2], PageConfirmedBlock(a))

\* a run confirmed by the commit page ended with a successful report
C22_Witness ==
    /\ ConfirmedByPage # {}
    /\ OtherStatus("agent_api")
    /\ RunOver
    /\ Succeeded(FALSE)

\* the remote step a request belongs to: 1 the agent-commit lookup, 2 the
\* manifest read, 3 the integrations-commit query, 4 the tag-list query
StepOf(req) ==
    CASE req \in {"agent_api", "agent_page"} -> 1
      [] req \in {"deps_api", "deps_raw"} -> 2
      [] req \in {"integ_list", "integ_direct"} -> 3
      [] OTHER -> 4

\* the steps of the requests the run has issued, in order: the answered
\* ones, then the one that waits for its answer
IssuedSteps ==
    [k \in 1..Len(trace) |-> StepOf(trace[k].req)]
        \o (IF outstanding > 0 THEN <<StepOf(pc)>> ELSE <<>>)

\* the requests were issued in the order of the steps, from step 1 on
IssuedInOrder ==
    /\ IssuedSteps # <<>> => IssuedSteps[1] = 1
    /\ \A i, j \in 1..Len(IssuedSteps) :
          i < j => IssuedSteps[i] <= IssuedSteps[j]

\* a request of the step was answered before the k-th request was issued
AnsweredBefore(step, k) ==
    \E i \in 1..Len(trace) : i < k /\ StepOf(trace[i].req) = step

\* the step has delivered what the next step works on
UsableResult(step) ==
    CASE step = 1 -> RevisionFound
      [] step = 2 -> \E v \in DependencyVersions : Truthy(v)
      [] OTHER -> integrations_commit_info # JNull

\* every request of a step in later is issued after the step before it was
\* answered, and answered with a usable result where needed says so
AfterPreviousStep(later, needed) ==
    \A k \in 1..Len(IssuedSteps) :
        IssuedSteps[k] \in later =>
            /\ AnsweredBefore(IssuedSteps[k] - 1, k)
            /\ IssuedSteps[k] - 1 \in needed
                  => UsableResult(IssuedSteps[k] - 1)

\* C23 as stated: within one run the requests are issued in the order
\* agent-commit lookup, manifest read, integrations-commit query, tag-list
\* query, none of a later step before the previous step has completed with
\* a usable result, and at most one request is outstanding at any time.
C23_StrictOrder ==
    /\ IssuedInOrder
    /\ AfterPreviousStep({2, 3, 4}, {1, 2, 3})
    /\ outstanding <= 1

\* C23, amended: the requests are issued in that order, at most one is
\* outstanding at any time, the manifest read and the integrations-commit
\* query are issued only after the previous step completed with a usable
\* result, and the tag-list query is issued after the integrations-commit
\* query has completed, whether or not it found a commit.
C23_OrderBestEffort ==
    /\ IssuedInOrder
    /\ AfterPreviousStep({2, 3}, {1, 2})
    /\ AfterPreviousStep({4}, {})
    /\ outstanding <= 1

\* the tag-list request waits for its answer after an integrations-commit
\* query that found no commit
C23_Witness ==
    /\ pc = "tags"
    /\ outstanding = 1
    /\ IntegQueryFailed
    /\ integrations_commit_info = JNull

(***************************************************************************)
(* Specification of repeated resolutions: the finder of the process runs   *)
(* find_integrations again and again on a few inputs and answers; one run  *)
(* is kept, with its input, its answers and its outcome, and the later     *)
(* runs are compared with it.                                              *)
(***************************************************************************)
\* a complete commit of the agent repository, and the manifest of a version
FoundAgentCommit ==
    JDict({<<"html_url", JStr(ApiHtmlUrl)>>, <<"commit", CommitDataFull>>})
ManifestOf(v) == FileObject(B64(JsonText(JDict({<<DepsKey, JStr(v)>>}))))

\* a few answers to each request: found and not found, a released and an
\* unreleased version, a complete integrations commit and one without a
\* SHA, a tag list and none
FewAgentApiAnswers ==
    {HttpResp(StatusNotFound, JNull), HttpResp(StatusOk, FoundAgentCommit)}
FewAgentPageAnswers ==
    {HttpResp(StatusNotFound, NotJson), HttpResp(StatusOk, NotJson)}
FewDepsApiAnswers ==
    {HttpResp(StatusNotFound, JNull),
     HttpResp(StatusOk, ManifestOf(Version751)),
     HttpResp(StatusOk, ManifestOf(VersionMain))}
FewDepsRawAnswers ==
    {HttpResp(StatusNotFound, NotJson)}
FewIntegListAnswers ==
    {HttpResp(StatusNotFound, JNull),
     HttpResp(StatusOk,
              JList(<<JDict({<<"sha", JStr(IntegSha)>>,
                             <<"commit", CommitDataFull>>})>>)),
     HttpResp(StatusOk,
              JList(<<JDict({<<"sha", JNull>>,
                             <<"commit", CommitDataFull>>})>>))}
FewIntegDirectAnswers ==
    {HttpResp(StatusNotFound, JNull)}
FewTagListAnswers ==
    {RaiseResp, HttpResp(StatusOk, JList(<<TagNamed(Version751)>>))}

\* the remote steps of a run, each answered in one of the few ways
FewAnswers ==
    \/ SendRequest
    \/ \E resp \in FewAgentApiAnswers : AgentApiRequest(resp)
    \/ \E resp \in FewAgentPageAnswers : AgentPageRequest(resp)
    \/ \E resp \in FewDepsApiAnswers : DepsApiRequest(resp)
    \/ \E resp \in FewDepsRawAnswers : DepsRawRequest(resp)
    \/ \E resp \in FewIntegListAnswers : IntegListRequest(resp)
    \/ \E resp \in FewIntegDirectAnswers : IntegDirectRequest(resp)
    \/ \E resp \in FewTagListAnswers : TagListRequest(resp)

RepeatTexts ==
    {TextBareSha, TextQuayTag, TextInvalid}

\* the run that returned is kept for comparison; its locals are gone
KeepRun ==
    /\ pc = "returned"
    /\ ~previous.kept
    /\ previous' = [kept |-> TRUE, input |-> input_string, answers |-> trace,
                    outcome |-> outcome]
    /\ pc' = "idle"
    /\ input_string' = <<>>
    /\ sha' = Unset
    /\ commit_info' = JNull
    /\ integrations_version' = JNull
    /\ integrations_commit_info' = JNull
    /\ trace' = <<>>
    /\ outcome' = NoOutcome
    /\ UNCHANGED <<session, sha_result, version, response, branch_result, obs,
                   caller, outstanding, gui, cli, browser>>

NextRepeat ==
    \/ \E text \in RepeatTexts : FindStart(text)
    \/ FewAnswers
    \/ KeepRun
    \/ FindReturn

SpecRepeat ==
    Init /\ [][NextRepeat]_vars

\* the run that has ended got the input and the answers of the kept run
SameInputAndAnswers ==
    /\ previous.kept
    /\ RunOver
    /\ input_string = previous.input
    /\ trace = previous.answers

DevelopmentBranch ==
    [parts |-> {"(DEVELOPMENT BRANCH)"},
     spelled |-> <<"D", "E", "V", "E", "L", "O", "P", "M", "E", "N", "T", " ",
                   "B", "R", "A", "N", "C", "H">>]

\* "[BRANCH_VERSION_DETECTED]"
BranchMarker ==
    [parts |-> {"[BRANCH_VERSION_DETECTED]"},
     spelled |-> <<"[", "B", "R", "A", "N", "C", "H", "_", "V", "E", "R", "S",
                   "I", "O", "N", "_", "D", "E", "T", "E", "C", "T", "E", "D",
                   "]">>]

\* phrase in text
PhraseIn(phrase, text) ==
    \/ \E i \in 1..Len(text) : text[i] \in phrase.parts
    \/ Contains(text, phrase.spelled)

\* the parts of a report that hold "URL:", "Integrations Commit:" and
\* "stackstate-agent-integrations", the parts that start with "https://" and
\* the parts that start with white space
UrlLabels == {"  URL: "}
IntegrationsCommitLabels == {"Integrations Commit:"}
IntegrationsRepoParts == {IntegrationsRepo[1]}
HttpsParts == {AgentRepo[1], IntegrationsRepo[1]}
SpaceParts ==
    {"\n", " ", "  SHA: ", "  URL: ", "  Date: ", "  Committer: ",
     "  Version: "}

\* a part of the set stands in the text
HasPart(text, parts) ==
    \E i \in 1..Len(text) : text[i] \in parts

\* message.split("\n"): the k-th line stands between the (k-1)-th and the
\* k-th line break
SplitLines(message) ==
    LET breaks == {i \in 1..Len(message) : message[i] = "\n"}
        Break(k) ==
            IF k = 0 THEN 0
            ELSE IF k > Cardinality(breaks) THEN Len(message) + 1
            ELSE CHOOSE i \in breaks :
                    Cardinality({j \in breaks : j <= i}) = k
    IN  [k \in 1..(Cardinality(breaks) + 1) |->
            SubSeq(message, Break(k - 1) + 1, Break(k) - 1)]

\* re.search(r"URL: (https://[^\s]+)", text): group 1 of the first match,
\* None without a match
UrlMatch(text) ==
    LET starts == {i \in 1..(Len(text) - 1) :
                      text[i] \in UrlLabels /\ text[i + 1] \in HttpsParts}
    IN  IF starts = {} THEN None
        ELSE LET i == Min(starts)
                 stops == {j \in (i + 2)..Len(text) : text[j] \in SpaceParts}
                 last == IF stops = {} THEN Len(text) ELSE Min(stops) - 1
             IN  SubSeq(text, i + 1, last)

\* the URL of the line when it matches and names the integrations
\* repository, None otherwise
IntegrationsUrlOf(line) ==
    LET url == UrlMatch(line)
    IN  IF url # None /\ HasPart(url, IntegrationsRepoParts) THEN url
        ELSE None

\* the test a loop puts on a line before it looks for the URL: line 496 of
\* the window asks for one of the two labels, line 555 of the find command
\* for both
LineTest(line, both) ==
    IF both
    THEN HasPart(line, IntegrationsCommitLabels) /\ HasPart(line, UrlLabels)
    ELSE HasPart(line, IntegrationsCommitLabels) \/ HasPart(line, UrlLabels)

\* the integrations URL the loop over the lines stops at: that of the first
\* line that passes the test and has one, None when there is no such line
UrlAmong(lines, both) ==
    LET urls == [k \in 1..Len(lines) |->
                    IF LineTest(lines[k], both)
                    THEN IntegrationsUrlOf(lines[k]) ELSE None]
    IN  CHOOSE url \in {IF \A k \in 1..Len(u) : u[k] = None THEN None
                        ELSE u[Min({k \in 1..Len(u) : u[k] # None})] :
                            u \in {urls}} : TRUE

\* the URL found in a successful message: the search of the whole message
\* comes first (lines 491-492 and 550-551), then the message is split once
\* and its lines are gone through
FoundUrl(message, both) ==
    IF UrlMatch(message) = None THEN None
    ELSE CHOOSE url \in {UrlAmong(lines, both) :
                            lines \in {SplitLines(message)}} : TRUE

\* str.strip() of a typed text
RECURSIVE LStrip(_)
LStrip(text) ==
    IF text # <<>> /\ Head(text) = " " THEN LStrip(Tail(text)) ELSE text
RECURSIVE RStrip(_)
RStrip(text) ==
    IF text # <<>> /\ text[Len(text)] = " "
    THEN RStrip(SubSeq(text, 1, Len(text) - 1))
    ELSE text
Strip(text) == RStrip(LStrip(text))

(***************************************************************************)
(* WorkerThread and IntegrationsFinderGUI                                  *)
(***************************************************************************)
\* lines 329-340: what WorkerThread.run emits for the result of its call
WorkerEmission(result) ==
    LET is_branch == IF Len(result) = 3 THEN result[3] ELSE FALSE
    IN  [success |-> result[1],
         message |-> IF is_branch
                     THEN result[2] \o <<"\n", "[BRANCH_VERSION_DETECTED]">>
                     ELSE result[2]]

\* line 478: is_branch of on_search_finished
MessageNamesBranch(message) ==
    PhraseIn(DevelopmentBranch, message) \/ PhraseIn(BranchMarker, message)

\* lines 488-516: the URL on_search_finished finds, None when it finds none
UrlForButton(success, message) ==
    IF success THEN FoundUrl(message, FALSE) ELSE None

\* the texts typed into the input field: a SHA, a text without one, the
\* words of the branch label, and a blank
TextBranchWords == DevelopmentBranch.spelled
TextBlank == <<" ">>
GuiTexts ==
    {TextBareSha, TextInvalid, TextBranchWords, TextBlank}

\* faulty variant: the find button stays enabled during the search
GuiFindNoDisable(text) ==
    /\ find_enabled
    /\ dialog = "none"
    /\ Strip(text) # <<>>
    /\ workers < 2
    /\ progress_visible' = TRUE
    /\ results_text' = <<>>
    /\ worker' = [state |-> "started", input |-> Strip(text)]
    /\ workers' = workers + 1
    /\ delivered' = 0
    /\ UNCHANGED <<find_enabled, dialog, warning_visible, open_enabled,
                   current_url, finished>>
    /\ UNCHANGED <<input_string, session, sha_result, version, response,
                   branch_result, obs, run, previous, cli, browser>>

\* lines 449-469: a click on the find button with text in the input field;
\* a disabled button and a window behind a message box take no click
GuiFind(text) ==
    /\ find_enabled
    /\ dialog = "none"
    /\ LET typed == Strip(text)
       IN  IF typed = <<>>
           THEN /\ dialog' = "Input Required"
                /\ UNCHANGED <<find_enabled, progress_visible, results_text,
                               worker, workers, delivered>>
           ELSE /\ find_enabled' = FALSE
                /\ progress_visible' = TRUE
                /\ results_text' = <<>>
                /\ worker' = [state |-> "started", input |-> typed]
                /\ workers' = workers + 1
                /\ delivered' = 0
                /\ UNCHANGED dialog
    /\ UNCHANGED <<warning_visible, open_enabled, current_url, finished>>
    /\ UNCHANGED <<input_string, session, sha_result, version, response,
                   branch_result, obs, run, previous, cli, browser>>

\* line 328: the thread of the worker calls find_integrations on the finder
\* of the window
WorkerCall ==
    /\ worker.state = "started"
    /\ FindStart(worker.input)

\* the locals of the call after it is over
CallOver ==
    /\ pc' = "idle"
    /\ input_string' = <<>>
    /\ sha' = Unset
    /\ commit_info' = JNull
    /\ integrations_version' = JNull
    /\ integrations_commit_info' = JNull
    /\ trace' = <<>>
    /\ outcome' = NoOutcome
    /\ UNCHANGED <<caller, outstanding>>

\* lines 329-340: the call returned; run emits finished and the thread ends
WorkerEmit ==
    /\ pc = "returned"
    /\ outcome.kind = "return"
    /\ finished' = Append(finished, WorkerEmission(outcome.value))
    /\ worker' = [state |-> "ended", input |-> worker.input,
                  result |-> outcome.value]
    /\ workers' = workers - 1
    /\ CallOver
    /\ UNCHANGED <<find_enabled, progress_visible, warning_visible,
                   open_enabled, current_url, results_text, delivered, dialog>>
    /\ UNCHANGED <<session, sha_result, version, response, branch_result, obs,
                   previous, cli, browser>>

\* line 328: the call raised; run has no handler, the exception ends the
\* thread and finished is not emitted
WorkerRaise ==
    /\ pc = "returned"
    /\ outcome.kind = "raise"
    /\ worker' = [state |-> "raised", input |-> worker.input,
                  exc |-> outcome.exc]
    /\ workers' = workers - 1
    /\ CallOver
    /\ UNCHANGED <<find_enabled, progress_visible, warning_visible,
                   open_enabled, current_url, results_text, finished,
                   delivered, dialog>>
    /\ UNCHANGED <<session, sha_result, version, response, branch_result, obs,
                   previous, cli, browser>>

\* lines 471-518: the event loop of the window hands the oldest emission to
\* on_search_finished
OnSearchFinished ==
    /\ finished # <<>>
    /\ LET success == Head(finished).success
           message == Head(finished).message
           url == UrlForButton(success, message)
       IN  /\ find_enabled' = TRUE
           /\ progress_visible' = FALSE
           /\ warning_visible' = MessageNamesBranch(message)
           /\ results_text' = message
           /\ current_url' = url
           /\ open_enabled' = IF url # None THEN TRUE ELSE open_enabled
    /\ finished' = Tail(finished)
    /\ delivered' = delivered + 1
    /\ UNCHANGED <<worker, workers, dialog>>
    /\ UNCHANGED <<input_string, session, sha_result, version, response,
                   branch_result, obs, run, previous, cli, browser>>

\* lines 520-525: a click on the enabled "Open URL in Browser" button
OpenUrl ==
    /\ open_enabled
    /\ dialog = "none"
    /\ IF current_url # None /\ current_url # <<>>
       THEN browser' = current_url /\ UNCHANGED dialog
       ELSE dialog' = "No URL" /\ UNCHANGED browser
    /\ UNCHANGED <<find_enabled, progress_visible, warning_visible,
                   open_enabled, current_url, results_text, worker, workers,
                   finished, delivered>>
    /\ UNCHANGED <<input_string, session, sha_result, version, response,
                   branch_result, obs, run, previous, cli>>

\* the user closes the message box
CloseDialog ==
    /\ dialog # "none"
    /\ dialog' = "none"
    /\ UNCHANGED <<find_enabled, progress_visible, warning_visible,
                   open_enabled, current_url, results_text, worker, workers,
                   finished, delivered>>
    /\ UNCHANGED <<input_string, session, sha_result, version, response,
                   branch_result, obs, run, previous, cli, browser>>

(***************************************************************************)
(* Specification of the window: the user clicks, the thread of the worker  *)
(* runs the resolution against the few answers, the event loop delivers    *)
(* the emissions.                                                          *)
(***************************************************************************)
\* the steps of the thread of the worker
WorkerSteps ==
    \/ WorkerCall
    \/ FewAnswers
    \/ WorkerEmit
    \/ WorkerRaise

NextGui ==
    \/ \E text \in GuiTexts : GuiFind(text)
    \/ WorkerSteps
    \/ OnSearchFinished
    \/ OpenUrl
    \/ CloseDialog

SpecGui ==
    Init /\ [][NextGui]_vars

\* the search last started has completed: its worker returned and its
\* emission was handled
SearchCompleted ==
    /\ worker.state = "ended"
    /\ finished = <<>>
    /\ delivered > 0

\* the isBranch flag of the resolution the worker ran
IsBranchFlag ==
    Len(worker.result) = 3 /\ worker.result[3]

\* C25: after any search completes in the GUI the warning label is visible
\* exactly when the isBranch flag of that resolution is true; it is hidden
\* after every failed resolution, whatever text was typed, and after every
\* success classified as a tag.
C25_WarningIffBranch ==
    SearchCompleted => (warning_visible <=> IsBranchFlag)

\* a search for the words of the branch label failed to extract an id, and
\* the warning label is visible
C25_Failing ==
    /\ SearchCompleted
    /\ worker.input = TextBranchWords
    /\ worker.result = <<FALSE, ExtractFailedMessage(TextBranchWords)>>
    /\ warning_visible

\* C25 for the texts that do not hold the words of the marks: the warning
\* label then shows the isBranch flag of the resolution
C25_WarningIffBranchOtherTexts ==
    (SearchCompleted /\ ~MessageNamesBranch(worker.input))
        => (warning_visible <=> IsBranchFlag)

\* a search is under way: started, and on_search_finished has not run for it
SearchUnderWay ==
    \/ worker.state \in {"started", "raised"}
    \/ finished # <<>>

\* C26: in the GUI at most one worker resolution is in flight at any time:
\* from the start of a search until on_search_finished runs the find button
\* is disabled and no second WorkerThread is started.
C26_OneWorker ==
    /\ workers <= 1
    /\ Len(finished) <= 1
    /\ SearchUnderWay => ~find_enabled
    /\ workers = 1 => worker.state = "started"

\* the worker of a search has issued requests and waits for an answer while
\* the find button is disabled
C26_Witness ==
    /\ workers = 1
    /\ worker.state = "started"
    /\ outstanding = 1
    /\ Len(trace) >= 2
    /\ ~find_enabled

\* C28: in every reachable GUI state the "Open URL in Browser" button is
\* enabled only if current_url holds an integrations URL, a search that
\* completes without a URL leaves the button disabled, and open_url does not
\* reach its "No URL available" message box.
C28_ButtonNeedsUrl ==
    /\ open_enabled =>
          current_url # None /\ HasPart(current_url, IntegrationsRepoParts)
    /\ dialog # "No URL"

\* after a successful search a second search failed: the button is still
\* enabled, current_url is None, and a click has opened the message box
C28_Failing ==
    /\ SearchCompleted
    /\ worker.result[1] = FALSE
    /\ open_enabled
    /\ current_url = None
    /\ dialog = "No URL"

\* C28 up to the first search that completes without a URL: a successful
\* search leaves the button enabled with its integrations URL
C28_UrlAfterSuccess ==
    (SearchCompleted /\ worker.result[1] = TRUE) =>
        /\ open_enabled
        /\ current_url # None
        /\ HasPart(current_url, IntegrationsRepoParts)

(***************************************************************************)
(* The window under fair scheduling: the thread of the worker goes on as   *)
(* long as it has a step to take (the operating system schedules it, and   *)
(* every request is answered or fails), and the event loop of the window   *)
(* hands every queued emission to its slot.                                *)
(***************************************************************************)
SpecGuiFair ==
    /\ Init
    /\ [][NextGui]_vars
    /\ WF_vars(WorkerSteps)
    /\ WF_vars(OnSearchFinished)

\* the search last started has delivered its one completion and the window
\* is ready for the next search
OneCompletion ==
    /\ SearchCompleted
    /\ delivered = 1
    /\ find_enabled
    /\ ~progress_visible

\* C27: every search started in the GUI eventually delivers exactly one
\* completion, never zero and never more than one, after which the find
\* button is enabled again and the progress bar hidden.
C27_ExactlyOneCompletion ==
    /\ [](delivered <= 1)
    /\ (worker.state = "started") ~> OneCompletion

\* the call of the worker raised: the thread is over, nothing was emitted,
\* the find button stays disabled and the progress bar visible
C27_Failing ==
    /\ worker.state = "raised"
    /\ finished = <<>>
    /\ delivered = 0
    /\ ~find_enabled
    /\ progress_visible

\* C27 where the call of the worker returns: every search then delivers
\* exactly one completion, or its call raised
C27_OneCompletionUnlessRaised ==
    /\ [](delivered <= 1)
    /\ (worker.state = "started") ~> (OneCompletion \/ worker.state = "raised")

(***************************************************************************)
(* The find command of the CLI                                             *)
(***************************************************************************)
\* what the user answers to "Open URL in browser? (y/N): ", stripped and in
\* lower case, or Ctrl-C
CliAnswers == {"y", "yes", "n", "", "KeyboardInterrupt"}

\* lines 541-546: success, message and is_branch of the result
Unpacked(result) ==
    [success |-> result[1], message |-> result[2],
     is_branch |-> IF Len(result) = 3 THEN result[3] ELSE FALSE]

\* lines 548-573: the URL find offers, None when its loop stops at no line
UrlToOffer(success, message) ==
    IF success THEN FoundUrl(message, TRUE) ELSE None

\* lines 559-564: what find prints before it asks
QuickAccess(url, is_branch) ==
    <<<<"Quick access URL: ">> \o url>>
        \o (IF is_branch
            THEN <<<<"WARNING: This integrations version appears to be a development branch!">>,
                   <<"   You are working with an unofficial/unreleased development version.">>>>
            ELSE <<>>)

\* the texts handed to the find command
CliTexts ==
    {TextBareSha, TextQuayTag, TextInvalid}

\* lines 538-539: the command creates its finder and calls find_integrations
CliCall(text) ==
    /\ printed = <<>>
    /\ FindStart(text)

\* lines 541-575: the call returned; find looks for the URL, offers it,
\* opens the browser on y or yes, and prints the message
CliRender(answer) ==
    /\ pc = "returned"
    /\ outcome.kind = "return"
    /\ LET r == Unpacked(outcome.value)
           url == UrlToOffer(r.success, r.message)
       IN  /\ offered' = (url # None)
           /\ browser' = IF url # None /\ answer \in {"y", "yes"} THEN url
                         ELSE browser
           /\ printed' = (IF url # None THEN QuickAccess(url, r.is_branch)
                          ELSE <<>>)
                            \o <<r.message>>
    /\ pc' = "exited"
    /\ UNCHANGED <<input_string, sha, commit_info, integrations_version,
                   integrations_commit_info, trace, outcome, caller,
                   outstanding, session, sha_result, version, response,
                   branch_result, obs, previous, gui>>

\* line 539: the call raised; find has no handler and the command ends with
\* the traceback
CliTraceback ==
    /\ pc = "returned"
    /\ outcome.kind = "raise"
    /\ printed' = <<<<"Traceback (most recent call last):", outcome.exc>>>>
    /\ pc' = "exited"
    /\ UNCHANGED <<input_string, sha, commit_info, integrations_version,
                   integrations_commit_info, trace, outcome, caller,
                   outstanding, session, sha_result, version, response,
                   branch_result, obs, previous, gui, offered, browser>>

NextCli ==
    \/ \E text \in CliTexts : CliCall(text)
    \/ FewAnswers
    \/ \E answer \in CliAnswers : CliRender(answer)
    \/ CliTraceback

SpecCli ==
    Init /\ [][NextCli]_vars

\* the command is over and its call had returned a result
CliDone ==
    pc = "exited" /\ outcome.kind = "return"

\* find printed the integrations URL as quick-access URL before the message
QuickAccessPrinted ==
    \E k \in 1..(Len(printed) - 1) :
        /\ Head(printed[k]) = "Quick access URL: "
        /\ HasPart(printed[k], IntegrationsRepoParts)

\* C24: on every successful resolution the find command prints the
\* integrations URL as a quick-access URL and offers to open it in a browser
\* (opening it only on the answer y or yes), then prints the report; on
\* failure it prints only the failure message.
C24_CliOffersUrl ==
    CliDone =>
        /\ printed # <<>>
        /\ printed[Len(printed)] = outcome.value[2]
        /\ IF outcome.value[1]
           THEN QuickAccessPrinted /\ offered
           ELSE Len(printed) = 1 /\ ~offered /\ browser = None

\* a resolution succeeded and find printed the report and nothing else
C24_Failing ==
    /\ CliDone
    /\ Succeeded(FALSE)
    /\ printed = <<outcome.value[2]>>
    /\ ~offered
    /\ browser = None

\* what find does: it prints the message of the result and nothing else,
\* and offers no URL
C24_PrintsMessageOnly ==
    CliDone =>
        /\ printed = <<outcome.value[2]>>
        /\ ~offered
        /\ browser = None

====
